---- MODULE Spec2Model ----
(***************************************************************************)
(* TSCH slot operation (core/net/mac/tsch/tsch-slot-operation.c).          *)
(*                                                                         *)
(* The model has three parts:                                              *)
(*   - the pure helpers (check_timer_miss, tsch_calculate_channel, ...),   *)
(*     exercised on enumerated inputs by the specification SpecFn;         *)
(*   - the foreground: tsch_get_lock / tsch_release_lock at statement      *)
(*     granularity for two callers, the association procedure             *)
(*     (tsch_slot_operation_sync, tsch_slot_operation_start), the queue    *)
(*     producers and the ring consumers;                                   *)
(*   - the slot executor tsch_slot_operation with its sub-protothreads     *)
(*     tsch_tx_slot and tsch_rx_slot, resumed by the rtimer.               *)
(* Timer values are kept modulo RTIMER_MOD (a reduced rtimer_clock_t).     *)
(* The build modelled is the one without GUARD_BEACON (the #if branches of *)
(* lines 564, 913 and 1052) and without CCA_ENABLED; the CCA block of      *)
(* lines 547-563 is evaluated as a function of its samples in SpecFn, and  *)
(* so are the guard-beacon branches of lines 582-647 and 1071-1086.        *)
(* SpecRing is the node, without the callers of the lock, on runs long     *)
(* enough for dequeued_ringbuf and input_ringbuf to fill up (workload      *)
(* "rings": a coordinator, unicast packets to one neighbor, data frames),  *)
(* for both values of TSCH_RADIO_ON_DURING_TIMESLOT; the other             *)
(* specifications run the build with the policy disabled.                  *)
(* SpecMiss is the node whose code loses time (workload "delays"), with    *)
(* the rtimer firing and the start loop returning under weak fairness.     *)
(***************************************************************************)
EXTENDS Integers, Sequences, FiniteSets, TLC

(***************************************************************************)
(* Bounds of the model                                                     *)
(***************************************************************************)
\* rtimer_clock_t is modelled as 0..RTIMER_MOD-1 (arithmetic wraps)
RTIMER_MOD == 32
\* the ASN is capped: no slot is started and no pass is made beyond it
MaxAsn == 5
\* the cap on the ASN of the runs that fill the rings
MaxRingAsn == 9
\* ticks the code of a slot may lose (execution time, other interrupts)
MaxDelay == 3
\* rtimer_set failures per run of the executor or of the start loop
MaxTimerFail == 1
\* largest ASN handed to tsch_slot_operation_sync
MaxSyncAsn == 1
\* largest channel offset of the pure-function inputs
MaxChannelOffset == 5
\* largest ASN of the pure-function inputs
MaxFnAsn == 11
\* most samples of channel_clear in one CCA window
MaxSamples == 3
\* largest time correction, in ticks, of the pure-function inputs
MaxCorrection == 3
\* packets handed to tsch_queue_add_packet in a run
MaxPackets == 3
\* frames the radio receives in a run
MaxFrames == 3
\* the CSMA backoff exponent saturates at MaxBackoff
MaxBackoff == 1
\* packets in all the neighbor queues together
MaxQueued == 1

(***************************************************************************)
(* Program constants (scaled to the reduced timer)                         *)
(***************************************************************************)
RTIMER_GUARD == 1
TS_TIMESLOT_LENGTH == 12
TS_TX_OFFSET == 4
TS_RX_OFFSET == 2
TS_RX_WAIT == 4
TS_MAX_TX == 2
TS_RX_ACK_DELAY == 3
TS_TX_ACK_DELAY == 3
TS_ACK_WAIT == 1
\* 100 * TSCH_CLOCK_TO_SLOTS(TSCH_DESYNC_THRESHOLD / 100, timeslot_length)
DESYNC_SLOTS == 2
TSCH_MAC_MAX_FRAME_RETRIES == 1
TSCH_DEQUEUED_ARRAY_SIZE == 2
TSCH_MAX_INCOMING_PACKETS == 2
\* capacity of a neighbor queue
TSCH_QUEUE_NUM_PER_NEIGHBOR == 1

NULL == "NULL"

\* tsch_hopping_sequence (TSCH_HOPPING_SEQUENCE_4_4) and its length
tsch_hopping_sequence == <<15, 25, 26, 20>>
tsch_hopping_sequence_length == Len(tsch_hopping_sequence)

MAC_TX_OK == "MAC_TX_OK"
MAC_TX_NOACK == "MAC_TX_NOACK"
MAC_TX_DEFERRED == "MAC_TX_DEFERRED"
MAC_TX_ERR == "MAC_TX_ERR"

(***************************************************************************)
(* Pure helpers                                                            *)
(***************************************************************************)
\* truncation to rtimer_clock_t
Wrap(x) == x % RTIMER_MOD

\* RTIMER_CLOCK_LT(a, b): the signed difference a - b is negative
RTIMER_CLOCK_LT(a, b) == 2 * Wrap(a - b) >= RTIMER_MOD

\* RTIMER_CLOCK_DIFF(a, b): the signed difference a - b
RTIMER_CLOCK_DIFF(a, b) ==
    IF 2 * Wrap(a - b) >= RTIMER_MOD THEN Wrap(a - b) - RTIMER_MOD ELSE Wrap(a - b)

\* TSCH_ASN_MOD(asn, div)
TSCH_ASN_MOD(asn, div) == asn % div

\* TSCH_ASN_DIFF(asn1, asn2)
TSCH_ASN_DIFF(asn1, asn2) == asn1 - asn2

\* a plausible slip: the channel offset is added after the last reduction
calculate_channel_no_wrap(asn, channel_offset) ==
    LET index_of_0 == TSCH_ASN_MOD(asn, tsch_hopping_sequence_length)
        index_of_offset == (index_of_0 % tsch_hopping_sequence_length) + channel_offset
    IN IF index_of_offset < tsch_hopping_sequence_length
       THEN tsch_hopping_sequence[index_of_offset + 1]
       ELSE 0

\* tsch_calculate_channel: the array is 0-based in C, 1-based here
tsch_calculate_channel(asn, channel_offset) ==
    LET index_of_0 == TSCH_ASN_MOD(asn, tsch_hopping_sequence_length)
        index_of_offset == (index_of_0 + channel_offset) % tsch_hopping_sequence_length
    IN tsch_hopping_sequence[index_of_offset + 1]

\* a plausible slip: strict comparison with the target
check_timer_miss_strict(ref_time, offset, now_) ==
    LET target == Wrap(ref_time + offset)
        now_has_overflowed == now_ < ref_time
        target_has_overflowed == target < ref_time
    IN IF now_has_overflowed = target_has_overflowed
       THEN target < now_
       ELSE now_has_overflowed

\* check_timer_miss
check_timer_miss(ref_time, offset, now_) ==
    LET target == Wrap(ref_time + offset)
        now_has_overflowed == now_ < ref_time
        target_has_overflowed == target < ref_time
    IN IF now_has_overflowed = target_has_overflowed
       THEN target <= now_
       ELSE now_has_overflowed

\* a plausible slip: the guard is not subtracted before the miss check
schedule_slot_operation_no_guard(ref_time, offset, now_, r_ok) ==
    LET missed == check_timer_miss(ref_time, Wrap(offset), now_)
    IN IF missed
       THEN [ret |-> 0, armed |-> FALSE, target |-> 0, missed |-> TRUE]
       ELSE IF ~r_ok
            THEN [ret |-> 0, armed |-> FALSE, target |-> 0, missed |-> FALSE]
            ELSE [ret |-> 1, armed |-> TRUE, target |-> Wrap(ref_time + offset),
                  missed |-> FALSE]

\* tsch_schedule_slot_operation: now_ is RTIMER_NOW(), r_ok tells whether
\* rtimer_set returned RTIMER_OK.  The result gives the return value, whether
\* a timer was armed and at which absolute time.
tsch_schedule_slot_operation(ref_time, offset, now_, r_ok) ==
    LET missed == check_timer_miss(ref_time, Wrap(offset - RTIMER_GUARD), now_)
    IN IF missed
       THEN [ret |-> 0, armed |-> FALSE, target |-> 0, missed |-> TRUE]
       ELSE IF ~r_ok
            THEN [ret |-> 0, armed |-> FALSE, target |-> 0, missed |-> FALSE]
            ELSE [ret |-> 1, armed |-> TRUE, target |-> Wrap(ref_time + offset),
                  missed |-> FALSE]

(***************************************************************************)
(* The schedule, the neighbors and their queues (collaborators)            *)
(***************************************************************************)
LINK_OPTION_TX == "TX"
LINK_OPTION_RX == "RX"
LINK_OPTION_SHARED == "SHARED"

\* the neighbors: the EB and broadcast pseudo-neighbors and one unicast peer
n_eb == "n_eb"
n_broadcast == "n_broadcast"
Nbrs == {n_eb, n_broadcast, "n1"}

\* struct tsch_link: the cells of the schedule, by name
LinkTable ==
    [tx |-> [link_options |-> {LINK_OPTION_TX}, link_type |-> "NORMAL",
             addr |-> "n1", channel_offset |-> 0],
     txsh |-> [link_options |-> {LINK_OPTION_TX, LINK_OPTION_SHARED},
               link_type |-> "ADVERTISING", addr |-> n_broadcast, channel_offset |-> 1],
     rx |-> [link_options |-> {LINK_OPTION_RX}, link_type |-> "NORMAL",
             addr |-> n_broadcast, channel_offset |-> 2],
     rx2 |-> [link_options |-> {LINK_OPTION_RX}, link_type |-> "NORMAL",
              addr |-> n_broadcast, channel_offset |-> 3]]
Links == DOMAIN LinkTable
RxLinks == {l \in Links : LINK_OPTION_RX \in LinkTable[l].link_options}
HasOption(l, o) == o \in LinkTable[l].link_options

\* struct tsch_neighbor fields
is_broadcast(n) == n \in {n_eb, n_broadcast}

VARIABLES
    now,                      \* RTIMER_NOW()
    timer_armed,              \* an rtimer is set with tsch_slot_operation as callback
    timer_target,             \* its absolute time
    tsch_locked,
    tsch_lock_requested,
    tsch_in_slot_operation,
    tsch_is_associated,
    tsch_is_coordinator,
    tsch_current_asn,
    last_sync_asn,
    current_slot_start,
    drift_correction,
    is_drift_correction_used,
    current_link,
    backup_link,
    current_packet,           \* NULL or the neighbor whose queue head it is
    current_neighbor,
    current_channel,
    last_timesource_neighbor,
    epc,                      \* where the executor protothreads stand
    wait_until,               \* the absolute time a busy-wait ends at
    pass,                     \* locals of the last reschedule pass and its result
    run_fail,                 \* rtimer_set failures in this run
    fpc,                      \* where each foreground caller of the lock stands
    fres,                     \* what tsch_get_lock returned to it last (-1: nothing yet)
    apc,                      \* where the association procedure stands
    sync_arg,                 \* the arguments of the last tsch_slot_operation_sync
    radio_on,
    radio_channel,
    mac_tx_status,            \* static in tsch_tx_slot
    eack_time_correction,     \* the time correction of the ACK being handled, in ticks
    txq,                      \* packets in each neighbor queue
    head_tx,                  \* transmissions of the packet at its head
    head_id,                  \* the packet at its head (0: none)
    head_ret,                 \* ret of the packet at its head
    head_slots,               \* TX slots the packet at its head was bound in
    backoff_exponent,         \* CSMA backoff exponent of each neighbor
    next_id,                  \* the next packet handed to tsch_queue_add_packet
    dq_count,                 \* entries in dequeued_ringbuf
    dq_put_ptr,               \* its put index
    dequeued_array,           \* the packet each of its slots points to (0: none)
    dq_committed,             \* the packets committed to it, in order
    dq_consumed,              \* the packets its consumer obtained, in order
    tx_polled,                \* the packet its consumer is handling (0: none)
    in_count,                 \* entries in input_ringbuf
    in_put_ptr,               \* its put index
    input_array,              \* the frame held by each of its slots (0: none)
    in_committed,             \* the frames committed to it, in order
    in_consumed,              \* the frames its consumer obtained, in order
    rx_polled,                \* the frame its consumer is handling (0: none)
    next_frame,               \* the next frame the radio receives
    radio_pending,            \* NETSTACK_RADIO.pending_packet()
    input_queue_drop,         \* static in tsch_rx_slot
    rxf,                      \* the frame being received (statics of tsch_rx_slot)
    timesync_call,            \* the call of tsch_timesync_update made in this slot
    fn,                       \* inputs and result of the pure helpers (SpecFn)
    radio_on_during_timeslot, \* the build option TSCH_RADIO_ON_DURING_TIMESLOT
    workload                  \* what the environment of this run does

vars == <<now, timer_armed, timer_target, tsch_locked, tsch_lock_requested,
          tsch_in_slot_operation, tsch_is_associated, tsch_is_coordinator,
          tsch_current_asn, last_sync_asn, current_slot_start, drift_correction,
          is_drift_correction_used, current_link, backup_link, current_packet,
          current_neighbor, current_channel, last_timesource_neighbor, epc,
          wait_until, pass, run_fail, fpc, fres, apc, sync_arg,
          radio_on, radio_channel, radio_pending, mac_tx_status,
          eack_time_correction, txq, head_tx, head_id, head_ret, head_slots,
          backoff_exponent, next_id, dq_count, dq_put_ptr, dequeued_array,
          dq_committed, dq_consumed, tx_polled, in_count, in_put_ptr, input_array,
          in_committed, in_consumed, rx_polled, next_frame, input_queue_drop,
          rxf, timesync_call, fn, radio_on_during_timeslot, workload>>

\* groups used in UNCHANGED
lockVars == <<tsch_locked, tsch_lock_requested, fpc, fres>>
timerVars == <<timer_armed, timer_target>>
syncVars == <<tsch_current_asn, last_sync_asn, current_slot_start>>
driftVars == <<drift_correction, is_drift_correction_used, timesync_call>>
linkVars == <<current_link, backup_link>>
bindVars == <<current_packet, current_neighbor>>
radioVars == <<radio_on, radio_channel, current_channel, radio_pending>>
headVars == <<head_tx, head_id, head_ret, head_slots>>
queueVars == <<txq, headVars, backoff_exponent, next_id>>
dqVars == <<dq_count, dq_put_ptr, dequeued_array, dq_committed, dq_consumed, tx_polled>>
inVars == <<in_count, in_put_ptr, input_array, in_committed, in_consumed, rx_polled,
            next_frame>>
ringVars == <<dqVars, inVars, input_queue_drop>>
runVars == <<run_fail>>
txVars == <<mac_tx_status, eack_time_correction>>
assocVars == <<tsch_is_associated, tsch_is_coordinator, apc, sync_arg,
               last_timesource_neighbor>>
envVars == <<fn, radio_on_during_timeslot, workload>>

\* struct tsch_neighbor, is_time_source: the unicast peer is the time source of
\* a node that is not the coordinator; a coordinator has none
is_time_source(n) == n = "n1" /\ ~tsch_is_coordinator

\* the environments a run is checked in: foreground callers of the lock, queued
\* packets and received frames, late code with received frames, failing timers
Workloads == {"locking", "traffic", "timing", "faults"}

Procs == {"f1", "f2"}

\* no call of tsch_schedule_slot_operation is being returned from
NoPass == [site |-> "none", link |-> NULL, diff |-> 0, comp |-> 0, drift |-> 0,
           ref |-> 0, offset |-> 0, now |-> 0, r_ok |-> TRUE, ret |-> 0,
           backoff_addr |-> NULL]
NoFrame == [seen |-> FALSE, valid |-> FALSE, for_us |-> FALSE, ack_required |-> FALSE,
            is_eb |-> FALSE, src |-> NULL, rx_start_time |-> 0, estimated_drift |-> 0,
            id |-> 0]
NoFn == [op |-> "none", a |-> 0, b |-> 0, c |-> 0, r_ok |-> TRUE, res |-> 0,
         armed |-> FALSE, target |-> 0, link |-> NULL, q |-> NULL, p |-> NULL,
         n |-> NULL, status |-> NULL, queue_empty |-> FALSE, update |-> NULL,
         beacon_id |-> 0, estimated_drift |-> 0]

\* tsch_timesync_update (tsch-adaptive-timesync.c) as seen from this file: the
\* arguments of the call made in the slot that is ending, if any
NoTimesync == [called |-> FALSE, n |-> NULL, time_delta_asn |-> 0, drift_ticks |-> 0]
tsch_timesync_update(n, time_delta_asn, drift_ticks) ==
    [called |-> TRUE, n |-> n, time_delta_asn |-> time_delta_asn,
     drift_ticks |-> drift_ticks]

\* the positions at which the executor is suspended, waiting for the rtimer
SuspPcs == {"susp_main", "tx_susp", "ack_susp", "rx_susp", "rxack_susp"}
ExecSuspended == epc \in SuspPcs
ForegroundRuns == ExecSuspended /\ pass.site = "none"
LockCallers == IF workload = "locking" THEN Procs ELSE {}

\* the state after the static initialisers, before association
Boot ==
    /\ now = 0
    /\ timer_armed = FALSE
    /\ timer_target = 0
    /\ tsch_locked = 0
    /\ tsch_lock_requested = 0
    /\ tsch_in_slot_operation = 0
    /\ tsch_is_associated = FALSE
    /\ tsch_is_coordinator = FALSE
    /\ tsch_current_asn = 0
    /\ last_sync_asn = 0
    /\ current_slot_start = 0
    /\ drift_correction = 0
    /\ is_drift_correction_used = 0
    /\ timesync_call = NoTimesync
    /\ current_link = NULL
    /\ backup_link = NULL
    /\ current_packet = NULL
    /\ current_neighbor = NULL
    /\ current_channel = 0
    /\ last_timesource_neighbor = NULL
    /\ epc = "susp_main"
    /\ wait_until = 0
    /\ pass = NoPass
    /\ run_fail = 0
    /\ fpc = [f \in Procs |-> "idle"]
    /\ fres = [f \in Procs |-> -1]
    /\ apc = "off"
    /\ sync_arg = [start |-> 0, asn |-> 0]
    /\ radio_on = FALSE
    /\ radio_channel = 0
    /\ mac_tx_status = MAC_TX_OK
    /\ eack_time_correction = 0
    /\ radio_pending = FALSE
    /\ txq = [n \in Nbrs |-> 0]
    /\ head_tx = [n \in Nbrs |-> 0]
    /\ head_id = [n \in Nbrs |-> 0]
    /\ head_ret = [n \in Nbrs |-> MAC_TX_OK]
    /\ head_slots = [n \in Nbrs |-> 0]
    /\ backoff_exponent = [n \in Nbrs |-> 0]
    /\ next_id = 1
    /\ dq_count = 0
    /\ dq_put_ptr = 0
    /\ dequeued_array = [i \in 0..(TSCH_DEQUEUED_ARRAY_SIZE - 1) |-> 0]
    /\ dq_committed = <<>>
    /\ dq_consumed = <<>>
    /\ tx_polled = 0
    /\ in_count = 0
    /\ in_put_ptr = 0
    /\ input_array = [i \in 0..(TSCH_MAX_INCOMING_PACKETS - 1) |-> 0]
    /\ in_committed = <<>>
    /\ in_consumed = <<>>
    /\ rx_polled = 0
    /\ next_frame = 1
    /\ input_queue_drop = 0
    /\ rxf = NoFrame
    /\ fn = NoFn

Init == Boot /\ workload \in Workloads /\ radio_on_during_timeslot = FALSE

(***************************************************************************)
(* The lock: tsch_get_lock, statement by statement, and tsch_release_lock  *)
(***************************************************************************)
\* line 199: if(!tsch_locked), else the failure return of line 234
GetLockEnter(f) ==
    /\ ForegroundRuns
    /\ fpc[f] = "idle" /\ fres[f] # 1
    /\ IF tsch_locked = 0
       THEN fpc' = [fpc EXCEPT ![f] = "request"] /\ fres' = [fres EXCEPT ![f] = -1]
       ELSE fpc' = fpc /\ fres' = [fres EXCEPT ![f] = 0]
    /\ UNCHANGED <<tsch_locked, tsch_lock_requested>>

\* line 203: tsch_lock_requested = 1
GetLockRequest(f) ==
    /\ ForegroundRuns
    /\ fpc[f] = "request"
    /\ tsch_lock_requested' = 1
    /\ fpc' = [fpc EXCEPT ![f] = "wait"]
    /\ UNCHANGED <<tsch_locked, fres>>

\* lines 205-213: if(tsch_in_slot_operation) while(tsch_in_slot_operation) is
\* left once the flag reads 0
SlotOperationOver(in_slot_operation) == in_slot_operation = 0

\* lines 205-215: leave the wait once tsch_in_slot_operation is seen clear
GetLockWaitDone(f) ==
    /\ ForegroundRuns
    /\ fpc[f] = "wait"
    /\ SlotOperationOver(tsch_in_slot_operation)
    /\ fpc' = [fpc EXCEPT ![f] = "check"]
    /\ UNCHANGED <<tsch_locked, tsch_lock_requested, fres>>

\* line 216: if(!tsch_locked), else return 0 (line 234)
GetLockTake(f) ==
    /\ ForegroundRuns
    /\ fpc[f] = "check"
    /\ IF tsch_locked = 0
       THEN /\ fpc' = [fpc EXCEPT ![f] = "take"]
            /\ fres' = fres
       ELSE /\ fpc' = [fpc EXCEPT ![f] = "idle"]
            /\ fres' = [fres EXCEPT ![f] = 0]
    /\ UNCHANGED <<tsch_locked, tsch_lock_requested>>

\* line 218: tsch_locked = 1
GetLockSet(f) ==
    /\ ForegroundRuns
    /\ fpc[f] = "take"
    /\ tsch_locked' = 1
    /\ fpc' = [fpc EXCEPT ![f] = "clear"]
    /\ UNCHANGED <<tsch_lock_requested, fres>>

\* lines 219-227: tsch_lock_requested = 0; return 1
GetLockClear(f) ==
    /\ ForegroundRuns
    /\ fpc[f] = "clear"
    /\ tsch_lock_requested' = 0
    /\ fpc' = [fpc EXCEPT ![f] = "idle"]
    /\ fres' = [fres EXCEPT ![f] = 1]
    /\ UNCHANGED tsch_locked

\* tsch_release_lock, called by the holder
tsch_release_lock(f) ==
    /\ ForegroundRuns
    /\ fpc[f] = "idle" /\ fres[f] = 1
    /\ tsch_locked' = 0
    /\ fres' = [fres EXCEPT ![f] = -1]
    /\ UNCHANGED <<tsch_lock_requested, fpc>>

tsch_get_lock(f) ==
    \/ GetLockEnter(f)
    \/ GetLockRequest(f)
    \/ GetLockWaitDone(f)
    \/ GetLockTake(f)
    \/ GetLockSet(f)
    \/ GetLockClear(f)

LockUnchanged ==
    UNCHANGED <<now, timerVars, tsch_in_slot_operation, syncVars, driftVars, linkVars,
                bindVars, radioVars, queueVars, ringVars, runVars, assocVars, epc,
                wait_until, pass, txVars, rxf, envVars>>

(***************************************************************************)
(* Time                                                                    *)
(*                                                                         *)
(* now is RTIMER_NOW() as the running code reads it.  While the executor   *)
(* is suspended only the rtimer interrupt reads the clock, so time passes  *)
(* in one step up to the timer target (TimerFire); a busy-wait passes the  *)
(* time up to its deadline (BusyWaitEnd); the code of a slot loses up to   *)
(* MaxDelay ticks before rescheduling (EndSlot).                           *)
(***************************************************************************)
\* BUSYWAIT_UNTIL_ABS(0, ref, offset), wait_until being ref + offset: the clock
\* when the busy-wait is over
BusyWaitEnd == IF RTIMER_CLOCK_LT(now, wait_until) THEN wait_until ELSE now

\* the runs of SpecRing and SpecMiss are those of one role in one environment: a
\* coordinator with a full schedule, unicast packets to one neighbor, data
\* frames of a stranger
SingleRole == workload \in {"rings", "delays"}

\* the cap on the ASN: the wake-up of a slot at or beyond MaxAsn does not happen
AsnCap == IF workload = "rings" THEN MaxRingAsn ELSE MaxAsn

AtCap ==
    /\ epc = "susp_main" /\ tsch_is_associated
    /\ tsch_current_asn >= AsnCap

\* rtimer_set returns RTIMER_OK or an error
RtimerResults ==
    IF workload = "faults" /\ run_fail < MaxTimerFail THEN {TRUE, FALSE} ELSE {TRUE}

\* ticks the code of a slot loses before it reschedules
LostTicks == IF workload \in {"timing", "delays"} THEN 0..MaxDelay ELSE {0}

(***************************************************************************)
(* Collaborators: schedule, queues, timesync                               *)
(***************************************************************************)
\* the slotframe: the link of each slot offset (NULL: no cell), and the link of
\* a second slotframe at the same offset, which becomes the backup link
Slotframe == <<"txsh", "rx", NULL, "tx">>
SlotframeBackup == <<NULL, "rx2", NULL, "rx">>
\* the schedule of the runs with late code: the shared link has a backup link too
SlotframeBackupShared == <<"rx2", "rx2", NULL, "rx">>
BackupLinkAt(o) ==
    IF workload = "delays" THEN SlotframeBackupShared[o] ELSE SlotframeBackup[o]
SlotframeLength == Len(Slotframe)

\* slots from asn to the next offset that has a cell
SlotsUntilNext(asn) ==
    CHOOSE d \in 1..SlotframeLength :
        /\ Slotframe[((asn + d) % SlotframeLength) + 1] # NULL
        /\ \A e \in 1..(d - 1) : Slotframe[((asn + e) % SlotframeLength) + 1] = NULL

\* tsch_schedule_get_next_active_link: the link, slots until it, backup link;
\* or no link at all
ScheduleResults(asn) ==
    LET d == SlotsUntilNext(asn)
        o == ((asn + d) % SlotframeLength) + 1
    IN (IF SingleRole THEN {}
        ELSE {[link |-> NULL, diff |-> 0, backup |-> NULL]})
       \cup {[link |-> Slotframe[o], diff |-> d, backup |-> BackupLinkAt(o)]}

\* tsch_timesync_adaptive_compensate returns a few ticks
CompSet == IF workload = "timing" THEN {0, 1} ELSE {0}

\* tsch_queue_get_nbr
tsch_queue_get_nbr(addr) == IF addr \in Nbrs THEN addr ELSE NULL

\* tsch_queue_get_packet_for_nbr on the queues q: the head of the neighbor's
\* queue
tsch_queue_get_packet_for_nbr(q, n, link) ==
    IF n # NULL /\ q[n] > 0 THEN n ELSE NULL

\* tsch_queue_get_unicast_packet_for_any on the queues q: n is left alone when
\* nothing is found
tsch_queue_get_unicast_packet_for_any(q, n, link) ==
    LET ready == {m \in Nbrs : ~is_broadcast(m) /\ q[m] > 0}
    IN IF ready = {} THEN [p |-> NULL, n |-> n]
       ELSE LET m == CHOOSE x \in ready : TRUE IN [p |-> m, n |-> m]

\* a plausible slip: an ADVERTISING_ONLY link without a beacon takes a data
\* packet, as an ADVERTISING link does
get_packet_for_link_only_as_advertising(q, l) ==
    LET adv == l.link_type \in {"ADVERTISING", "ADVERTISING_ONLY"}
        eb == IF adv
              THEN [p |-> tsch_queue_get_packet_for_nbr(q, n_eb, l), n |-> n_eb]
              ELSE [p |-> NULL, n |-> NULL]
    IN IF LINK_OPTION_TX \in l.link_options
       THEN IF eb.p = NULL
            THEN LET n2 == tsch_queue_get_nbr(l.addr)
                     p2 == tsch_queue_get_packet_for_nbr(q, n2, l)
                 IN IF p2 = NULL /\ n2 = n_broadcast
                    THEN tsch_queue_get_unicast_packet_for_any(q, n2, l)
                    ELSE [p |-> p2, n |-> n2]
            ELSE eb
       ELSE [p |-> NULL, n |-> NULL]

\* get_packet_and_neighbor_for_link, for the link l and the neighbor queues q:
\* the packet (NULL, or the neighbor whose queue head it is) and the neighbor
get_packet_and_neighbor_for_link(q, l) ==
    LET adv == l.link_type \in {"ADVERTISING", "ADVERTISING_ONLY"}
        eb == IF adv
              THEN [p |-> tsch_queue_get_packet_for_nbr(q, n_eb, l), n |-> n_eb]
              ELSE [p |-> NULL, n |-> NULL]
    IN IF LINK_OPTION_TX \in l.link_options
       THEN IF l.link_type # "ADVERTISING_ONLY" /\ eb.p = NULL
            THEN LET n2 == tsch_queue_get_nbr(l.addr)
                     p2 == tsch_queue_get_packet_for_nbr(q, n2, l)
                 IN IF p2 = NULL /\ n2 = n_broadcast
                    THEN tsch_queue_get_unicast_packet_for_any(q, n2, l)
                    ELSE [p |-> p2, n |-> n2]
            ELSE eb
       ELSE [p |-> NULL, n |-> NULL]

(***************************************************************************)
(* The association procedure (foreground)                                  *)
(***************************************************************************)
\* a plausible slip: the time of the last synchronisation is not reset
slot_operation_sync_keeps_last_sync(next_slot_start, next_slot_asn) ==
    /\ current_slot_start' = next_slot_start
    /\ tsch_current_asn' = next_slot_asn
    /\ last_sync_asn' = last_sync_asn
    /\ current_link' = NULL
    /\ UNCHANGED <<now, timerVars, lockVars, tsch_in_slot_operation, driftVars,
                   backup_link, bindVars, radioVars, queueVars, ringVars, runVars,
                   tsch_is_associated, tsch_is_coordinator, last_timesource_neighbor,
                   epc, wait_until, pass, txVars, rxf, envVars>>

\* tsch_slot_operation_sync
tsch_slot_operation_sync(next_slot_start, next_slot_asn) ==
    /\ current_slot_start' = next_slot_start
    /\ tsch_current_asn' = next_slot_asn
    /\ last_sync_asn' = next_slot_asn
    /\ current_link' = NULL
    /\ UNCHANGED <<now, timerVars, lockVars, tsch_in_slot_operation, driftVars,
                   backup_link, bindVars, radioVars, queueVars, ringVars, runVars,
                   tsch_is_associated, tsch_is_coordinator, last_timesource_neighbor,
                   epc, wait_until, pass, txVars, rxf, envVars>>

\* where the association places the slot start, relative to RTIMER_NOW(): at
\* it, or behind it (the start of the slot the beacon was received in)
SyncAheads == IF SingleRole THEN {0} ELSE {-11, 0}

\* the ASN the node synchronises at
SyncAsns ==
    IF SingleRole THEN {tsch_current_asn} ELSE tsch_current_asn..MaxSyncAsn

\* the association calls tsch_slot_operation_sync once synchronised
Sync ==
    /\ ForegroundRuns
    /\ apc = "off" /\ ~timer_armed
    /\ \E ahead \in SyncAheads, asn \in SyncAsns :
          /\ sync_arg' = [start |-> Wrap(now + ahead), asn |-> asn]
          /\ tsch_slot_operation_sync(Wrap(now + ahead), asn)
    /\ apc' = "synced"

\* the roles of the node: the runs that fill the rings are those of a coordinator
Coordinators == IF SingleRole THEN {TRUE} ELSE BOOLEAN

\* the association is complete: tsch_is_associated is set (tsch.c)
Associated ==
    /\ ForegroundRuns
    /\ apc = "synced"
    /\ tsch_is_associated' = TRUE
    /\ \E c \in Coordinators : tsch_is_coordinator' = c
    /\ apc' = "start"
    /\ UNCHANGED <<now, timerVars, lockVars, tsch_in_slot_operation, syncVars, driftVars,
                   linkVars, bindVars, radioVars, queueVars, ringVars, runVars,
                   sync_arg, last_timesource_neighbor, epc, wait_until, pass,
                   txVars, rxf, envVars>>

\* a plausible slip: the fallback to one slot is missing
NextDiffNoFallback(r) == r.diff

\* lines 1247-1252 and 1286-1291: the slots to advance are the schedule's
\* timeslot_diff, or 1 when there is no next link
NextDiff(r) == IF r.link = NULL THEN 1 ELSE r.diff

\* one pass of the do-while loop of tsch_slot_operation_start
StartPass ==
    /\ ForegroundRuns
    /\ apc = "start"
    /\ tsch_current_asn < AsnCap
    /\ \E r \in ScheduleResults(tsch_current_asn), r_ok \in RtimerResults :
        LET timeslot_diff == NextDiff(r)
            time_to_next_active_slot == Wrap(timeslot_diff * TS_TIMESLOT_LENGTH)
            prev_slot_start == current_slot_start
            s == tsch_schedule_slot_operation(prev_slot_start, time_to_next_active_slot,
                                              now, r_ok)
        IN /\ current_link' = r.link
           /\ backup_link' = r.backup
           /\ tsch_current_asn' = tsch_current_asn + timeslot_diff
           /\ current_slot_start' = Wrap(current_slot_start + time_to_next_active_slot)
           /\ timer_armed' = (timer_armed \/ s.armed)
           /\ timer_target' = IF s.armed THEN s.target ELSE timer_target
           /\ run_fail' = IF ~s.missed /\ ~r_ok THEN run_fail + 1 ELSE run_fail
           /\ pass' = [site |-> "start", link |-> r.link, diff |-> timeslot_diff,
                       comp |-> 0, drift |-> 0, ref |-> prev_slot_start, offset |-> time_to_next_active_slot,
                       now |-> now, r_ok |-> r_ok, ret |-> s.ret,
                       backoff_addr |-> NULL]
    /\ apc' = "start_ret"
    /\ UNCHANGED <<now, lockVars, tsch_in_slot_operation, last_sync_asn, driftVars,
                   bindVars, radioVars, queueVars, ringVars,
                   tsch_is_associated, tsch_is_coordinator, sync_arg,
                   last_timesource_neighbor, epc, wait_until, txVars, rxf, envVars>>

\* a plausible slip: a single pass, whatever the scheduling returned
StartLoopExitAlways(ret) == TRUE

\* line 1299: while(!tsch_schedule_slot_operation(...)), the loop is left on 1
StartLoopExit(ret) == ret = 1

\* the loop condition of tsch_slot_operation_start: return once a timer is armed
StartReturn ==
    /\ ExecSuspended
    /\ apc = "start_ret"
    /\ apc' = IF StartLoopExit(pass.ret) THEN "running" ELSE "start"
    /\ run_fail' = IF StartLoopExit(pass.ret) THEN 0 ELSE run_fail
    /\ sync_arg' = IF StartLoopExit(pass.ret) THEN [start |-> 0, asn |-> 0] ELSE sync_arg
    /\ pass' = NoPass
    /\ UNCHANGED <<now, timerVars, lockVars, tsch_in_slot_operation, syncVars, driftVars,
                   linkVars, bindVars, radioVars, queueVars, ringVars,
                   tsch_is_associated, tsch_is_coordinator,
                   last_timesource_neighbor, epc, wait_until, txVars, rxf, envVars>>

\* tsch_disassociate called by the foreground (leaving the network)
ForegroundDisassociate ==
    /\ ForegroundRuns
    /\ apc = "running" /\ tsch_is_associated
    /\ tsch_is_associated' = FALSE
    /\ apc' = "leaving"
    /\ UNCHANGED <<now, timerVars, lockVars, tsch_in_slot_operation, syncVars, driftVars,
                   linkVars, bindVars, radioVars, queueVars, ringVars, runVars,
                   tsch_is_coordinator, sync_arg, last_timesource_neighbor, epc,
                   wait_until, pass, txVars, rxf, envVars>>

(***************************************************************************)
(* Queue producers and ring consumers (foreground)                         *)
(***************************************************************************)
\* the neighbors the upper layers send to
QueueNbrs == IF SingleRole THEN {"n1"} ELSE Nbrs

\* tsch_queue_add_packet: a new packet, not yet transmitted
Enqueue(n) ==
    /\ ForegroundRuns
    /\ workload \in {"traffic", "rings", "delays"}
    /\ apc = "running"
    /\ n \in QueueNbrs
    /\ txq[n] < TSCH_QUEUE_NUM_PER_NEIGHBOR
    /\ txq["n_eb"] + txq["n_broadcast"] + txq["n1"] < MaxQueued
    /\ next_id <= MaxPackets
    /\ txq' = [txq EXCEPT ![n] = @ + 1]
    /\ head_id' = [head_id EXCEPT ![n] = next_id]
    /\ head_tx' = [head_tx EXCEPT ![n] = 0]
    /\ head_ret' = [head_ret EXCEPT ![n] = MAC_TX_DEFERRED]
    /\ head_slots' = [head_slots EXCEPT ![n] = 0]
    /\ next_id' = next_id + 1
    /\ UNCHANGED <<now, timerVars, lockVars, tsch_in_slot_operation, syncVars, driftVars,
                   linkVars, bindVars, radioVars, backoff_exponent, ringVars, runVars,
                   assocVars, epc, wait_until, pass, txVars, rxf, envVars>>

\* the get index of a ring that holds count entries below its put index
GetPtr(put_ptr, count, size) == (put_ptr + size - count) % size

\* the entries a ring holds, oldest first
RingContents(array, put_ptr, count, size) ==
    [i \in 1..count |-> array[(GetPtr(put_ptr, count, size) + i - 1) % size]]

\* tsch_tx_process_pending: ringbufindex_peek_get and the read of the entry
PollDequeued ==
    /\ ForegroundRuns
    /\ workload \in {"traffic", "rings"}
    /\ tx_polled = 0
    /\ dq_count > 0
    /\ tx_polled' = dequeued_array[GetPtr(dq_put_ptr, dq_count, TSCH_DEQUEUED_ARRAY_SIZE)]
    /\ UNCHANGED <<now, timerVars, lockVars, tsch_in_slot_operation, syncVars, driftVars,
                   linkVars, bindVars, radioVars, queueVars, dq_count, dq_put_ptr,
                   dequeued_array, dq_committed, dq_consumed, inVars, input_queue_drop,
                   runVars, assocVars, epc, wait_until, pass, txVars, rxf, envVars>>

\* tsch_tx_process_pending: the sent callback, then ringbufindex_get
ConsumeDequeued ==
    /\ ForegroundRuns
    /\ tx_polled # 0
    /\ dq_count' = dq_count - 1
    /\ dq_consumed' = Append(dq_consumed, tx_polled)
    /\ tx_polled' = 0
    /\ UNCHANGED <<now, timerVars, lockVars, tsch_in_slot_operation, syncVars, driftVars,
                   linkVars, bindVars, radioVars, queueVars, dq_put_ptr, dequeued_array,
                   dq_committed, inVars, input_queue_drop,
                   runVars, assocVars, epc, wait_until, pass, txVars, rxf, envVars>>

\* tsch_rx_process_pending: ringbufindex_peek_get and the read of the entry
PollInput ==
    /\ ForegroundRuns
    /\ workload \in {"traffic", "rings"}
    /\ rx_polled = 0
    /\ in_count > 0
    /\ rx_polled' = input_array[GetPtr(in_put_ptr, in_count, TSCH_MAX_INCOMING_PACKETS)]
    /\ UNCHANGED <<now, timerVars, lockVars, tsch_in_slot_operation, syncVars, driftVars,
                   linkVars, bindVars, radioVars, queueVars, dqVars, in_count, in_put_ptr,
                   input_array, in_committed, in_consumed, next_frame, input_queue_drop,
                   runVars, assocVars, epc, wait_until, pass, txVars, rxf, envVars>>

\* tsch_rx_process_pending: the input callback, then ringbufindex_get
ConsumeInput ==
    /\ ForegroundRuns
    /\ rx_polled # 0
    /\ in_count' = in_count - 1
    /\ in_consumed' = Append(in_consumed, rx_polled)
    /\ rx_polled' = 0
    /\ UNCHANGED <<now, timerVars, lockVars, tsch_in_slot_operation, syncVars, driftVars,
                   linkVars, bindVars, radioVars, queueVars, dqVars, in_put_ptr,
                   input_array, in_committed, next_frame, input_queue_drop,
                   runVars, assocVars, epc, wait_until, pass, txVars, rxf, envVars>>

(***************************************************************************)
(* The slot executor: tsch_slot_operation                                  *)
(***************************************************************************)
\* TSCH_RADIO_ON_DURING_TIMESLOT: the radio stays on for the whole slot (a
\* constant of the build, fixed at the start of a run)
TSCH_RADIO_ON_DURING_TIMESLOT == radio_on_during_timeslot

\* tsch_radio_on / tsch_radio_off: the state of the radio after the command
tsch_radio_on(command, was_on) ==
    CASE command = "START_OF_TIMESLOT" -> (TSCH_RADIO_ON_DURING_TIMESLOT \/ was_on)
      [] command = "WITHIN_TIMESLOT" -> (~TSCH_RADIO_ON_DURING_TIMESLOT \/ was_on)
      [] command = "FORCE" -> TRUE

tsch_radio_off(command, was_on) ==
    CASE command = "END_OF_TIMESLOT" -> (~TSCH_RADIO_ON_DURING_TIMESLOT /\ was_on)
      [] command = "WITHIN_TIMESLOT" -> (TSCH_RADIO_ON_DURING_TIMESLOT /\ was_on)
      [] command = "FORCE" -> FALSE

\* the rtimer interrupt at the timer target: the protothread resumes where it
\* yielded
ResumePc ==
    [susp_main |-> "top", tx_susp |-> "tx_bw", ack_susp |-> "ack_bw",
     rx_susp |-> "rx_bw", rxack_susp |-> "rxack_bw"]

TimerFire ==
    /\ pass.site = "none"
    /\ ExecSuspended /\ timer_armed /\ ~AtCap
    /\ now' = timer_target
    /\ timer_armed' = FALSE
    /\ timer_target' = 0
    /\ epc' = ResumePc[epc]
    /\ UNCHANGED <<lockVars, tsch_in_slot_operation, syncVars,
                   driftVars, linkVars, bindVars, radioVars, queueVars, ringVars,
                   runVars, assocVars, wait_until, pass, txVars, rxf, envVars>>

\* TSCH_SCHEDULE_AND_YIELD(pt, t, ref_time, offset), reached at time now_: the
\* call of tsch_schedule_slot_operation with offset - RTIMER_GUARD; the
\* busy-wait that follows the yield ends at ref_time + offset
ScheduleAndYield(site, ref_time, offset, now_) ==
    \E r_ok \in RtimerResults :
        LET s == tsch_schedule_slot_operation(ref_time, Wrap(offset - RTIMER_GUARD),
                                              now_, r_ok)
        IN /\ timer_armed' = (timer_armed \/ s.armed)
           /\ timer_target' = IF s.armed THEN s.target ELSE timer_target
           /\ run_fail' = IF ~s.missed /\ ~r_ok THEN run_fail + 1 ELSE run_fail
           /\ pass' = [site |-> site, link |-> NULL, diff |-> 0, comp |-> 0, drift |-> 0,
                       ref |-> ref_time, offset |-> Wrap(offset - RTIMER_GUARD),
                       now |-> now_, r_ok |-> r_ok, ret |-> s.ret,
                       backoff_addr |-> NULL]
           /\ wait_until' = Wrap(ref_time + offset)
           /\ epc' = "sched_ret"

NoSchedule == UNCHANGED <<timerVars, run_fail, pass>> /\ wait_until' = 0

\* a plausible slip: a pending lock request does not make the slot skipped
SkipSlotIgnoresRequest == current_link = NULL

\* line 1157: skip the slot without a link or with a pending lock request
SkipSlot == current_link = NULL \/ tsch_lock_requested # 0

\* a plausible slip: the RX option of the scheduled link is not looked at
use_backup_link_ignoring_rx(p, link, backup) == p = NULL /\ backup # NULL

\* line 1179: no packet, a link without the RX option, and a backup link
use_backup_link(p, link, backup) ==
    p = NULL /\ ~HasOption(link, LINK_OPTION_RX) /\ backup # NULL

\* a plausible slip: a slot without a packet is not active
is_active_slot_with_packet(p, link) == p # NULL

\* line 1183: is_active_slot
is_active_slot(p, link) == p # NULL \/ HasOption(link, LINK_OPTION_RX)

\* a plausible slip: the loop does not look at the association
slot_loop_continues_always(is_associated) == TRUE

\* line 1155: while(tsch_is_associated)
slot_loop_continues(is_associated) == is_associated

\* the top of an iteration, lines 1155-1214, up to the dispatch of TX or RX
ExecTop ==
    /\ epc = "top"
    /\ IF ~slot_loop_continues(tsch_is_associated)
       THEN \* the loop ends: PT_END
            /\ epc' = "susp_main"
            /\ apc' = IF apc = "leaving" THEN "off" ELSE apc
            /\ UNCHANGED <<tsch_in_slot_operation, driftVars, linkVars, bindVars,
                           radioVars>>
       ELSE IF SkipSlot
       THEN /\ epc' = "end_slot"
            /\ UNCHANGED <<tsch_in_slot_operation, driftVars, linkVars, bindVars,
                           radioVars, apc>>
       ELSE LET first == get_packet_and_neighbor_for_link(txq, LinkTable[current_link])
                to_backup == use_backup_link(first.p, current_link, backup_link)
                link == IF to_backup THEN backup_link ELSE current_link
                sel == IF to_backup
                       THEN get_packet_and_neighbor_for_link(txq, LinkTable[link])
                       ELSE first
                active == is_active_slot(sel.p, link)
                channel == tsch_calculate_channel(tsch_current_asn,
                                                  LinkTable[link].channel_offset)
            IN /\ tsch_in_slot_operation' = 1
               /\ drift_correction' = 0
               /\ is_drift_correction_used' = 0
               /\ timesync_call' = NoTimesync
               /\ current_link' = link
               /\ backup_link' = backup_link
               /\ current_packet' = sel.p
               /\ current_neighbor' = sel.n
               /\ IF active
                  THEN /\ current_channel' = channel
                       /\ radio_channel' = channel
                       /\ radio_on' = tsch_radio_on("START_OF_TIMESLOT", radio_on)
                       /\ radio_pending' = radio_pending
                       /\ epc' = IF sel.p # NULL THEN "tx_begin" ELSE "rx_begin"
                  ELSE /\ UNCHANGED radioVars
                       /\ epc' = "end_slot"
               /\ apc' = apc
    /\ UNCHANGED <<now, timerVars, lockVars, syncVars, queueVars, ringVars, runVars,
                   tsch_is_associated, tsch_is_coordinator, sync_arg,
                   last_timesource_neighbor, wait_until, pass, txVars, rxf, envVars>>

\* a plausible slip: the node leaves at the threshold already
NeedResyncAtThreshold(is_coordinator, asn, last_sync) ==
    ~is_coordinator /\ TSCH_ASN_DIFF(asn, last_sync) >= DESYNC_SLOTS

\* lines 1219-1220: do we need to resynchronize
NeedResync(is_coordinator, asn, last_sync) ==
    ~is_coordinator /\ TSCH_ASN_DIFF(asn, last_sync) > DESYNC_SLOTS

\* lines 1219-1228: the resynchronisation check at the end of the slot; the
\* code of the slot has taken up to MaxDelay ticks
EndSlot ==
    /\ epc = "end_slot"
    /\ \E lost \in LostTicks : now' = Wrap(now + lost)
    /\ IF NeedResync(tsch_is_coordinator, tsch_current_asn, last_sync_asn)
       THEN \* leave the network: tsch_disassociate(), then lines 1267-1268
            /\ last_timesource_neighbor' = NULL
            /\ tsch_is_associated' = FALSE
            /\ apc' = "off"
            /\ tsch_in_slot_operation' = 0
            /\ epc' = "susp_main"
            /\ run_fail' = 0
       ELSE /\ epc' = "resched"
            /\ UNCHANGED <<last_timesource_neighbor, tsch_is_associated, apc,
                           tsch_in_slot_operation, run_fail>>
    \* the statics of tsch_rx_slot are not read again before they are reassigned
    /\ rxf' = NoFrame
    /\ UNCHANGED <<timerVars, lockVars, syncVars, driftVars, linkVars, bindVars,
                   radioVars, queueVars, ringVars, tsch_is_coordinator, sync_arg,
                   wait_until, pass, txVars, envVars>>

\* a plausible slip: the drift correction is left out of the wake-up offset
TimeToNextNoDrift(timeslot_diff, drift) == Wrap(timeslot_diff * TS_TIMESLOT_LENGTH)

\* line 1256: time_to_next_active_slot, an rtimer_clock_t
TimeToNext(timeslot_diff, drift) == Wrap(timeslot_diff * TS_TIMESLOT_LENGTH + drift)

\* lines 1238-1244: the address tsch_queue_update_all_backoff_windows is called
\* with in this pass (NULL: no call), link being current_link
update_all_backoff_windows_of(link) ==
    IF /\ link # NULL
       /\ HasOption(link, LINK_OPTION_TX)
       /\ HasOption(link, LINK_OPTION_SHARED)
    THEN LinkTable[link].addr
    ELSE NULL

\* a plausible slip: the correction is kept for the next pass
drift_after_pass_kept(drift) == drift

\* line 1257: drift_correction = 0, once it has been added to the wake-up offset
drift_after_pass(drift) == 0

\* one pass of the do-while loop of lines 1237-1263
ReschedPass ==
    /\ epc = "resched"
    /\ \E r \in ScheduleResults(tsch_current_asn), comp \in CompSet,
          r_ok \in RtimerResults :
        LET timeslot_diff == NextDiff(r)
            time_to_next_active_slot == TimeToNext(timeslot_diff, drift_correction)
            prev_slot_start == current_slot_start
            s == tsch_schedule_slot_operation(prev_slot_start, time_to_next_active_slot,
                                              now, r_ok)
        IN /\ current_link' = r.link
           /\ backup_link' = r.backup
           /\ tsch_current_asn' = tsch_current_asn + timeslot_diff
           /\ current_slot_start' =
                 Wrap(current_slot_start + time_to_next_active_slot + comp)
           /\ timer_armed' = (timer_armed \/ s.armed)
           /\ timer_target' = IF s.armed THEN s.target ELSE timer_target
           /\ run_fail' = IF ~s.missed /\ ~r_ok THEN run_fail + 1 ELSE run_fail
           /\ pass' = [site |-> "main", link |-> r.link, diff |-> timeslot_diff,
                       comp |-> comp, drift |-> drift_correction,
                       ref |-> prev_slot_start,
                       offset |-> time_to_next_active_slot, now |-> now,
                       r_ok |-> r_ok, ret |-> s.ret,
                       backoff_addr |-> update_all_backoff_windows_of(current_link)]
    /\ drift_correction' = drift_after_pass(drift_correction)
    /\ is_drift_correction_used' = 0
    /\ timesync_call' = NoTimesync
    /\ epc' = "sched_ret"
    /\ UNCHANGED <<now, lockVars, tsch_in_slot_operation, last_sync_asn, bindVars,
                   radioVars, queueVars, ringVars, assocVars, wait_until,
                   txVars, rxf, envVars>>

\* what follows the return of tsch_schedule_slot_operation in the executor: the
\* loop condition of line 1263 with lines 1267-1268, or the PT_YIELD of
\* TSCH_SCHEDULE_AND_YIELD
SiteYield == [tx |-> "tx_susp", ack |-> "ack_susp", rx |-> "rx_susp",
              rxack |-> "rxack_susp"]
SiteWait == [tx |-> "tx_bw", ack |-> "ack_bw", rx |-> "rx_bw", rxack |-> "rxack_bw"]

\* a plausible slip: a single pass, whatever the scheduling returned
resched_loop_exit_always(ret) == TRUE

\* line 1263: while(!tsch_schedule_slot_operation(...)), the loop is left on 1
resched_loop_exit(ret) == ret = 1

\* a plausible slip: the protothread yields whatever the scheduling returned
schedule_yields_always(ret) == TRUE

\* line 319: PT_YIELD is reached when tsch_schedule_slot_operation returned 1
schedule_yields(ret) == ret = 1

ExecAfterSchedule ==
    /\ epc = "sched_ret"
    /\ IF pass.site = "main"
       THEN IF resched_loop_exit(pass.ret)
            THEN /\ tsch_in_slot_operation' = 0
                 /\ epc' = "susp_main"
                 /\ run_fail' = 0
            ELSE /\ epc' = "resched"
                 /\ UNCHANGED <<tsch_in_slot_operation, run_fail>>
       ELSE /\ epc' = IF schedule_yields(pass.ret) THEN SiteYield[pass.site]
                       ELSE SiteWait[pass.site]
            /\ UNCHANGED <<tsch_in_slot_operation, run_fail>>
    /\ pass' = NoPass
    /\ UNCHANGED <<now, timerVars, lockVars, syncVars, driftVars, linkVars, bindVars,
                   radioVars, queueVars, ringVars, assocVars, wait_until,
                   txVars, rxf, envVars>>

\* the sources a received frame may have: the time source or a stranger
FrameSources == IF SingleRole THEN {"other"} ELSE {"n1", "other"}

\* the kinds of frame: data frames only in the runs that fill the rings
FrameIsEb == IF SingleRole THEN {FALSE} ELSE BOOLEAN

\* the air time of a frame, in ticks
FrameDurations == IF workload = "rings" THEN {1} ELSE 1..TS_MAX_TX

(***************************************************************************)
(* tsch_tx_slot                                                            *)
(***************************************************************************)
\* ringbufindex_peek_put: the put index, or -1 when the ring has no free slot
ringbufindex_peek_put(put_ptr, count, size) ==
    IF count >= size THEN -1 ELSE put_ptr

\* a plausible slip: the result of the reservation is not tested
dequeued_slot_assumed(dequeued_index) == TRUE

\* line 494: a slot of the dequeued ring is reserved
dequeued_slot_reserved(dequeued_index) == dequeued_index # -1

\* lines 491-566: reserve a ring slot, prepare the frame, sleep until TX time
TxBegin ==
    /\ epc = "tx_begin"
    /\ head_slots' = [head_slots EXCEPT ![current_packet] = @ + 1]
    /\ IF ~dequeued_slot_reserved(
               ringbufindex_peek_put(dq_put_ptr, dq_count, TSCH_DEQUEUED_ARRAY_SIZE))
       THEN \* nothing else is done in this slot
            /\ epc' = "end_slot"
            /\ NoSchedule
       ELSE \E prepared \in BOOLEAN :
               IF prepared
               THEN ScheduleAndYield("tx", current_slot_start, TS_TX_OFFSET, now)
               ELSE epc' = "tx_post" /\ NoSchedule
    /\ UNCHANGED <<now, lockVars, tsch_in_slot_operation, syncVars, driftVars, linkVars,
                   bindVars, radioVars, txq, head_tx, head_id, head_ret,
                   backoff_exponent, next_id, ringVars, assocVars, txVars, rxf, envVars>>

\* a plausible slip: the ACK is listened for after a broadcast too
listens_for_ack_always(n) == TRUE

\* line 682: if(!is_broadcast), the ACK is listened for after a unicast
listens_for_ack(n) == ~is_broadcast(n)

\* lines 566-699 and 780-785: busy-wait until TX time, transmit for tx_duration
\* ticks, then sleep until the ACK is due
TxTransmit ==
    /\ epc = "tx_bw"
    /\ radio_on' = tsch_radio_off("WITHIN_TIMESLOT", radio_on)
    /\ \E transmitted \in BOOLEAN, tx_duration \in FrameDurations :
          IF transmitted
          THEN /\ now' = Wrap(BusyWaitEnd + tx_duration)
               /\ mac_tx_status' = MAC_TX_OK
               /\ IF listens_for_ack(current_neighbor)
                  THEN ScheduleAndYield("ack", current_slot_start,
                                        TS_TX_OFFSET + tx_duration + TS_RX_ACK_DELAY,
                                        Wrap(BusyWaitEnd + tx_duration))
                  ELSE epc' = "tx_post" /\ NoSchedule
          ELSE /\ now' = BusyWaitEnd
               /\ mac_tx_status' = MAC_TX_ERR
               /\ epc' = "tx_post"
               /\ NoSchedule
    /\ UNCHANGED <<lockVars, tsch_in_slot_operation, syncVars, driftVars, linkVars,
                   bindVars, radio_channel, radio_pending, current_channel, queueVars, ringVars,
                   assocVars, eack_time_correction, rxf, envVars>>

\* a frame may reach the radio after the code stopped listening and before the
\* radio is off: it stays pending in the radio
LateFrames == IF workload = "rings" THEN BOOLEAN ELSE {FALSE}

\* line 103: SYNC_IE_BOUND is one fourth of the RX wait (TS_RX_WAIT), in ticks
SYNC_IE_BOUND == 1

\* the time corrections an enhanced ACK may carry, after US_TO_RTIMERTICKS
EackCorrections == -2..2

\* a plausible slip: the lower bound of the clamp is forgotten
ClampCorrectionNoLower(r) ==
    IF r > SYNC_IE_BOUND THEN SYNC_IE_BOUND ELSE r

\* lines 754-760: the time correction truncated to [-SYNC_IE_BOUND, SYNC_IE_BOUND]
ClampCorrection(r) ==
    IF r > SYNC_IE_BOUND THEN SYNC_IE_BOUND
    ELSE IF r < -SYNC_IE_BOUND THEN -SYNC_IE_BOUND
    ELSE r

\* a plausible slip: the truncated correction is kept (line 763 left out)
AckDriftCorrectionClamped(r) == ClampCorrection(r)

\* lines 752-763: the value of drift_correction when line 770 is reached; the
\* assignment of line 763 replaces the truncated correction by 0
AckDriftCorrection(r) ==
    LET clamped == ClampCorrection(r) IN 0

\* lines 699-779: busy-wait until the ACK is due, listen for the enhanced ACK,
\* read it, extract the drift
TxAck ==
    /\ epc = "ack_bw"
    /\ now' = Wrap(BusyWaitEnd + TS_ACK_WAIT)
    /\ wait_until' = 0
    /\ radio_on' = tsch_radio_off("WITHIN_TIMESLOT",
                                  tsch_radio_on("WITHIN_TIMESLOT", radio_on))
    /\ \E acked \in BOOLEAN, ie_time_correction \in EackCorrections :
          IF acked
          THEN /\ mac_tx_status' = MAC_TX_OK
               /\ IF current_neighbor # NULL /\ is_time_source(current_neighbor)
                  THEN /\ eack_time_correction' = ie_time_correction
                       /\ drift_correction' = AckDriftCorrection(ie_time_correction)
                       /\ is_drift_correction_used' = 1
                       \* line 771 passes drift_correction to tsch_timesync_update
                       /\ timesync_call' =
                             tsch_timesync_update(current_neighbor,
                                 TSCH_ASN_DIFF(tsch_current_asn, last_sync_asn),
                                 AckDriftCorrection(ie_time_correction))
                       /\ last_sync_asn' = tsch_current_asn
                  ELSE UNCHANGED <<driftVars, last_sync_asn, eack_time_correction>>
          ELSE /\ mac_tx_status' = MAC_TX_NOACK
               /\ UNCHANGED <<driftVars, last_sync_asn, eack_time_correction>>
    /\ \E late \in LateFrames : radio_pending' = late
    /\ epc' = "tx_post"
    /\ UNCHANGED <<timerVars, lockVars, tsch_in_slot_operation, tsch_current_asn,
                   current_slot_start, linkVars, bindVars, radio_channel,
                   current_channel, queueVars, ringVars, runVars, assocVars,
                   pass, rxf, envVars>>

\* a plausible slip: the packet is dropped one transmission too late
update_neighbor_state_late(n, transmissions, status) ==
    IF status = MAC_TX_OK THEN 0
    ELSE IF transmissions > TSCH_MAC_MAX_FRAME_RETRIES + 1 THEN 0 ELSE 1

\* update_neighbor_state: is the packet still in its queue
update_neighbor_state(n, transmissions, status) ==
    IF status = MAC_TX_OK THEN 0
    ELSE IF transmissions >= TSCH_MAC_MAX_FRAME_RETRIES + 1 THEN 0 ELSE 1

\* a plausible slip: every success of a unicast transmission resets the backoff
backoff_update_reset_on_success(n, link, status, queue_empty) ==
    LET is_shared_link == HasOption(link, LINK_OPTION_SHARED)
        is_unicast == ~is_broadcast(n)
    IN IF status = MAC_TX_OK
       THEN IF is_unicast THEN "reset" ELSE "none"
       ELSE IF is_unicast /\ is_shared_link THEN "inc" ELSE "none"

\* update_neighbor_state, lines 373-396: the update of the CSMA state of the
\* neighbor, tsch_queue_backoff_reset, tsch_queue_backoff_inc or none;
\* queue_empty is tsch_queue_is_empty(n) after the removal of the packet
backoff_update(n, link, status, queue_empty) ==
    LET is_shared_link == HasOption(link, LINK_OPTION_SHARED)
        is_unicast == ~is_broadcast(n)
    IN IF status = MAC_TX_OK
       THEN IF is_unicast /\ (is_shared_link \/ queue_empty) THEN "reset" ELSE "none"
       ELSE IF is_unicast /\ is_shared_link THEN "inc" ELSE "none"

\* the backoff exponent of the neighbor after the transmission:
\* tsch_queue_backoff_reset gives 0 and tsch_queue_backoff_inc one more, up to
\* MaxBackoff
backoff_after(n, link, status, queue_empty, exponent) ==
    LET update == backoff_update(n, link, status, queue_empty)
    IN IF update = "reset" THEN 0
       ELSE IF update = "inc"
            THEN (IF exponent < MaxBackoff THEN exponent + 1 ELSE exponent)
            ELSE exponent

\* a plausible slip: the packet is published whether it left its queue or not
publish_always(in_queue) == TRUE

\* line 799: the packet is published when it is not in its queue any more
publish_dequeued(in_queue) == in_queue = 0

\* a plausible slip: the ring slot is committed without the pointer
dequeued_array_unwritten(array, index, p) == array

\* line 800: dequeued_array[dequeued_index] = current_packet
dequeued_array_write(array, index, p) == [array EXCEPT ![index] = p]

\* a plausible slip: the transmission is not counted
count_transmission_skipped(transmissions) == transmissions

\* line 792: current_packet->transmissions++
count_transmission(transmissions) == transmissions + 1

\* lines 790-822: count the transmission, update the queue, publish the packet
TxPost ==
    /\ epc = "tx_post"
    /\ radio_on' = tsch_radio_off("END_OF_TIMESLOT", radio_on)
    /\ LET n == current_neighbor
           p == head_id[n]
           transmissions == count_transmission(head_tx[n])
           in_queue == update_neighbor_state(n, transmissions, mac_tx_status)
           removed == in_queue = 0
       IN /\ txq' = IF removed THEN [txq EXCEPT ![n] = @ - 1] ELSE txq
          /\ head_tx' = [head_tx EXCEPT ![n] = IF removed THEN 0 ELSE transmissions]
          /\ head_ret' = [head_ret EXCEPT ![n] = IF removed THEN MAC_TX_OK
                                                 ELSE mac_tx_status]
          /\ head_id' = [head_id EXCEPT ![n] = IF removed THEN 0 ELSE p]
          /\ head_slots' = [head_slots EXCEPT ![n] = IF removed THEN 0 ELSE @]
          /\ backoff_exponent' =
                [backoff_exponent EXCEPT
                    ![n] = backoff_after(n, current_link, mac_tx_status,
                                         removed /\ txq[n] = 1, @)]
          /\ IF publish_dequeued(in_queue)
             THEN /\ dequeued_array' = dequeued_array_write(dequeued_array, dq_put_ptr, p)
                  \* ringbufindex_put
                  /\ dq_put_ptr' = (dq_put_ptr + 1) % TSCH_DEQUEUED_ARRAY_SIZE
                  /\ dq_count' = dq_count + 1
                  /\ dq_committed' = Append(dq_committed, p)
             ELSE UNCHANGED <<dequeued_array, dq_put_ptr, dq_count, dq_committed>>
    /\ eack_time_correction' = 0
    /\ epc' = "end_slot"
    /\ UNCHANGED <<now, timerVars, lockVars, tsch_in_slot_operation, syncVars, driftVars,
                   linkVars, bindVars, radio_channel, radio_pending, current_channel,
                   next_id, dq_consumed, tx_polled, inVars,
                   input_queue_drop, runVars, assocVars, wait_until, pass,
                   mac_tx_status, rxf, envVars>>

(***************************************************************************)
(* tsch_rx_slot                                                            *)
(***************************************************************************)
\* the dropped counter saturates in the model
MaxDrop == 1

\* the content of an input slot after the read of a frame left in the radio
STALE_FRAME == -1

\* lines 853-877: reserve an input slot, empty the radio into it, sleep until
\* RX time
RxBegin ==
    /\ epc = "rx_begin"
    /\ IF ringbufindex_peek_put(in_put_ptr, in_count, TSCH_MAX_INCOMING_PACKETS) = -1
       THEN \* lines 854-856: the else branch, down to line 1141, is not entered
            /\ input_queue_drop' =
                  IF input_queue_drop < MaxDrop THEN input_queue_drop + 1
                  ELSE input_queue_drop
            /\ UNCHANGED <<radio_pending, input_array>>
            /\ epc' = "end_slot"
            /\ NoSchedule
       ELSE /\ input_queue_drop' = input_queue_drop
            \* lines 872-875: while(pending_packet()) read(current_input->payload)
            /\ radio_pending' = FALSE
            /\ input_array' = IF radio_pending
                              THEN [input_array EXCEPT ![in_put_ptr] = STALE_FRAME]
                              ELSE input_array
            /\ ScheduleAndYield("rx", current_slot_start, TS_RX_OFFSET, now)
    /\ rxf' = NoFrame
    /\ UNCHANGED <<now, lockVars, tsch_in_slot_operation, syncVars, driftVars, linkVars,
                   bindVars, radio_on, radio_channel, current_channel, queueVars, dqVars,
                   in_count, in_put_ptr, in_committed, in_consumed, rx_polled, next_frame,
                   assocVars, txVars, envVars>>

\* lines 877-886: busy-wait until RX time, radio on, listen for the guard time
RxListen ==
    /\ epc = "rx_bw"
    /\ now' = BusyWaitEnd
    /\ radio_on' = tsch_radio_on("WITHIN_TIMESLOT", radio_on)
    /\ wait_until' = Wrap(current_slot_start + TS_RX_OFFSET + TS_RX_WAIT)
    /\ epc' = "rx_listen"
    /\ UNCHANGED <<timerVars, lockVars, tsch_in_slot_operation, syncVars, driftVars,
                   linkVars, bindVars, radio_channel, radio_pending, current_channel, queueVars,
                   ringVars, runVars, assocVars, pass, txVars, rxf, envVars>>

\* a plausible slip: the idle slot turns the radio off as a reception does
rx_idle_radio_off_within(was_on) == tsch_radio_off("WITHIN_TIMESLOT", was_on)

\* line 892: tsch_radio_off(TSCH_RADIO_CMD_OFF_FORCE)
rx_idle_radio_off(was_on) == tsch_radio_off("FORCE", was_on)

\* lines 889-893 and 1134-1140: nothing on air until the end of the guard time
RxIdle ==
    /\ epc = "rx_listen"
    /\ now' = BusyWaitEnd
    /\ radio_on' = rx_idle_radio_off(radio_on)
    /\ \E late \in LateFrames : radio_pending' = late
    /\ input_queue_drop' = 0
    /\ wait_until' = 0
    /\ epc' = "end_slot"
    /\ UNCHANGED <<timerVars, lockVars, tsch_in_slot_operation, syncVars, driftVars,
                   linkVars, bindVars, radio_channel, current_channel, queueVars,
                   dqVars, inVars, runVars, assocVars, pass,
                   txVars, rxf, envVars>>

\* the instants of the listening window at which a frame may be detected: its
\* start, and any later instant of it in the runs with late code
DetectTimes ==
    {now} \cup (IF workload # "timing" THEN {}
                ELSE {t \in 0..(RTIMER_MOD - 1) :
                        RTIMER_CLOCK_LT(now, t) /\ ~RTIMER_CLOCK_LT(wait_until, t)})

\* line 905: NETSTACK_RADIO.pending_packet() after the reception; a frame whose
\* reception failed is not handed over by the radio
FramePending == IF SingleRole THEN {TRUE} ELSE BOOLEAN

\* a plausible slip: the destination of the frame is not looked at
frame_accepted_any_dest(frame_valid, for_us) == frame_valid

\* lines 995-997: the frame goes on when it is valid and its destination is
\* linkaddr_node_addr or linkaddr_null (is_gb is 0 in this build)
frame_accepted(frame_valid, for_us) == frame_valid /\ for_us

\* lines 895-1040: a frame is detected, received, read from the radio, parsed;
\* the ACK is prepared
RxReceive ==
    /\ epc = "rx_listen"
    /\ workload \in {"traffic", "timing", "rings", "delays"}
    /\ next_frame <= MaxFrames
    /\ \E pending \in FramePending, valid \in BOOLEAN, for_us \in BOOLEAN,
          ack_required \in BOOLEAN,
          is_eb \in FrameIsEb, src \in FrameSources, packet_duration \in FrameDurations,
          rx_start_time \in DetectTimes :
        LET expected_rx_time == Wrap(current_slot_start + TS_TX_OFFSET)
            estimated_drift == RTIMER_CLOCK_DIFF(expected_rx_time, rx_start_time)
            received == Wrap(rx_start_time + packet_duration)
            accepted == pending /\ frame_accepted(valid, for_us)
        IN /\ now' = received
           /\ rxf' = IF accepted
                     THEN [seen |-> TRUE, valid |-> valid, for_us |-> for_us,
                           ack_required |-> ack_required, is_eb |-> is_eb,
                           src |-> src, rx_start_time |-> rx_start_time,
                           estimated_drift |-> estimated_drift, id |-> next_frame]
                     ELSE IF pending
                     THEN \* the destination is looked at in a valid frame only
                          [NoFrame EXCEPT !.seen = TRUE, !.valid = valid,
                                          !.for_us = valid /\ for_us, !.id = next_frame]
                     ELSE NoFrame
           \* line 915: the frame is read into current_input
           /\ input_array' = IF pending
                              THEN [input_array EXCEPT ![in_put_ptr] = next_frame]
                              ELSE input_array
           /\ next_frame' = IF pending THEN next_frame + 1 ELSE next_frame
           /\ radio_pending' = FALSE
           /\ IF accepted
              THEN IF ack_required
                   THEN /\ ScheduleAndYield("rxack", rx_start_time,
                                            packet_duration + TS_TX_ACK_DELAY, received)
                        /\ radio_on' = tsch_radio_off("WITHIN_TIMESLOT", radio_on)
                        /\ input_queue_drop' = input_queue_drop
                   ELSE /\ epc' = "rx_fin"
                        /\ NoSchedule
                        /\ radio_on' = tsch_radio_off("WITHIN_TIMESLOT", radio_on)
                        /\ input_queue_drop' = input_queue_drop
              ELSE /\ epc' = "end_slot"
                   /\ NoSchedule
                   /\ radio_on' = tsch_radio_off("END_OF_TIMESLOT",
                                     tsch_radio_off("WITHIN_TIMESLOT", radio_on))
                   /\ input_queue_drop' = 0
    /\ UNCHANGED <<lockVars, tsch_in_slot_operation, syncVars, driftVars, linkVars,
                   bindVars, radio_channel, current_channel, queueVars, dqVars,
                   in_count, in_put_ptr, in_committed, in_consumed, rx_polled,
                   assocVars, txVars, envVars>>

\* lines 1040-1043: busy-wait until the ACK is due, transmit it
RxAckTx ==
    /\ epc = "rxack_bw"
    /\ now' = BusyWaitEnd
    /\ radio_on' = tsch_radio_off("WITHIN_TIMESLOT", radio_on)
    /\ wait_until' = 0
    /\ epc' = "rx_fin"
    /\ UNCHANGED <<timerVars, lockVars, tsch_in_slot_operation, syncVars, driftVars,
                   linkVars, bindVars, radio_channel, radio_pending, current_channel, queueVars,
                   ringVars, runVars, assocVars, pass, txVars,
                   rxf, envVars>>

\* a plausible slip: the estimated drift is applied with its own sign
rx_drift_correction_same_sign(estimated_drift) == estimated_drift

\* lines 1062 and 1065: drift_correction = -estimated_drift, and the same value is
\* the third argument of tsch_timesync_update
rx_drift_correction(estimated_drift) == -estimated_drift

\* a plausible slip: any frame of the time source synchronises
rx_frame_syncs_any_type(n, is_eb) == n # NULL /\ is_time_source(n)

\* line 1055: if(n != NULL && n->is_time_source && is_eb)
rx_frame_syncs(n, is_eb) == n # NULL /\ is_time_source(n) /\ is_eb

\* lines 1053-1140: time synchronisation on a beacon of the time source, commit
RxFinish ==
    /\ epc = "rx_fin"
    /\ LET n == tsch_queue_get_nbr(rxf.src)
           since_last_timesync == TSCH_ASN_DIFF(tsch_current_asn, last_sync_asn)
       IN IF rx_frame_syncs(n, rxf.is_eb)
          THEN /\ last_sync_asn' = tsch_current_asn
               /\ drift_correction' = rx_drift_correction(rxf.estimated_drift)
               /\ is_drift_correction_used' = 1
               \* line 1065
               /\ timesync_call' =
                     tsch_timesync_update(n, since_last_timesync,
                                          rx_drift_correction(rxf.estimated_drift))
          ELSE UNCHANGED <<last_sync_asn, driftVars>>
    \* line 1111: ringbufindex_put
    /\ in_put_ptr' = (in_put_ptr + 1) % TSCH_MAX_INCOMING_PACKETS
    /\ in_count' = in_count + 1
    /\ in_committed' = Append(in_committed, rxf.id)
    /\ input_queue_drop' = 0
    /\ radio_on' = tsch_radio_off("END_OF_TIMESLOT", radio_on)
    /\ rxf' = NoFrame
    /\ epc' = "end_slot"
    /\ UNCHANGED <<now, timerVars, lockVars, tsch_in_slot_operation, tsch_current_asn,
                   current_slot_start, linkVars, bindVars, radio_channel, radio_pending,
                   current_channel, queueVars, dqVars, input_array, in_consumed,
                   rx_polled, next_frame, runVars, assocVars,
                   wait_until, pass, txVars, envVars>>

(***************************************************************************)
(* The specification of the node                                           *)
(***************************************************************************)
Foreground ==
    \/ \E f \in LockCallers : tsch_get_lock(f) /\ LockUnchanged
    \/ \E f \in LockCallers : tsch_release_lock(f) /\ LockUnchanged
    \/ Sync
    \/ Associated
    \/ StartPass
    \/ StartReturn
    \/ ForegroundDisassociate
    \/ \E n \in Nbrs : Enqueue(n)
    \/ PollDequeued
    \/ ConsumeDequeued
    \/ PollInput
    \/ ConsumeInput

Executor ==
    \/ TimerFire
    \/ ExecTop
    \/ TxBegin
    \/ TxTransmit
    \/ TxAck
    \/ TxPost
    \/ RxBegin
    \/ RxListen
    \/ RxIdle
    \/ RxReceive
    \/ RxAckTx
    \/ RxFinish
    \/ EndSlot
    \/ ReschedPass
    \/ ExecAfterSchedule

Next == Foreground \/ Executor

Spec == Init /\ [][Next]_vars

(***************************************************************************)
(* The node with enough slots for its rings to fill up                     *)
(***************************************************************************)
\* both values of TSCH_RADIO_ON_DURING_TIMESLOT
InitRing == Boot /\ workload = "rings" /\ radio_on_during_timeslot \in BOOLEAN

NextRing ==
    \/ Sync
    \/ Associated
    \/ StartPass
    \/ StartReturn
    \/ \E n \in Nbrs : Enqueue(n)
    \/ PollDequeued
    \/ ConsumeDequeued
    \/ PollInput
    \/ ConsumeInput
    \/ Executor

SpecRing == InitRing /\ [][NextRing]_vars

(***************************************************************************)
(* The node with slots whose code is late, so that wake-ups are missed     *)
(* while packets are queued                                                *)
(***************************************************************************)
InitMiss == Boot /\ workload = "delays" /\ radio_on_during_timeslot = FALSE

NextMiss ==
    \/ Sync
    \/ Associated
    \/ StartPass
    \/ StartReturn
    \/ \E n \in Nbrs : Enqueue(n)
    \/ Executor

\* the rtimer keeps interrupting and the executor runs to its next yield
SpecMiss == InitMiss /\ [][NextMiss]_vars /\ WF_vars(Executor) /\ WF_vars(StartReturn)

(***************************************************************************)
(* The pure helpers on enumerated inputs                                   *)
(***************************************************************************)
TimerValues == 0..(RTIMER_MOD - 1)

FnFrame ==
    UNCHANGED <<now, timerVars, lockVars, tsch_in_slot_operation, syncVars, driftVars,
                linkVars, bindVars, radioVars, queueVars, ringVars, runVars,
                assocVars, epc, wait_until, pass, txVars, rxf,
                radio_on_during_timeslot, workload>>

\* a call check_timer_miss(ref_time, offset, now)
CallCheckTimerMiss ==
    /\ fn.op = "none"
    /\ \E ref_time \in TimerValues, offset \in TimerValues, now_ \in TimerValues :
          fn' = [NoFn EXCEPT !.op = "check_timer_miss", !.a = ref_time, !.b = offset,
                             !.c = now_,
                             !.res = IF check_timer_miss(ref_time, offset, now_)
                                     THEN 1 ELSE 0]
    /\ FnFrame

\* a call tsch_calculate_channel(asn, channel_offset)
CallCalculateChannel ==
    /\ fn.op = "none"
    /\ \E asn \in 0..MaxFnAsn, channel_offset \in 0..MaxChannelOffset :
          fn' = [NoFn EXCEPT !.op = "tsch_calculate_channel", !.a = asn,
                             !.b = channel_offset,
                             !.res = tsch_calculate_channel(asn, channel_offset)]
    /\ FnFrame

\* a call tsch_schedule_slot_operation(tm, ref_time, offset) at time now
CallScheduleSlotOperation ==
    /\ fn.op = "none"
    /\ \E ref_time \in TimerValues, offset \in TimerValues, now_ \in TimerValues,
          r_ok \in BOOLEAN :
          LET s == tsch_schedule_slot_operation(ref_time, offset, now_, r_ok)
          IN fn' = [NoFn EXCEPT !.op = "tsch_schedule_slot_operation", !.a = ref_time,
                                !.b = offset, !.c = now_, !.r_ok = r_ok,
                                !.res = s.ret, !.armed = s.armed, !.target = s.target]
    /\ FnFrame

\* the handling of an ACK of the time source that carries the time correction r
CallAckDriftCorrection ==
    /\ fn.op = "none"
    /\ \E r \in -MaxCorrection..MaxCorrection :
          fn' = [NoFn EXCEPT !.op = "ack_drift_correction", !.a = r,
                             !.b = ClampCorrection(r),
                             !.res = AckDriftCorrection(r)]
    /\ FnFrame

\* uint8_t cca_status |= channel_clear(), on the values 0 and 1
BitOr(a, b) == IF a = 0 /\ b = 0 THEN 0 ELSE 1

\* lines 554-555: the busy-wait of the CCA window; each turn ORs a sample of
\* channel_clear (1: clear, 0: busy) into cca_status and the wait ends early
\* when cca_status is 0
RECURSIVE cca_busywait(_, _)
cca_busywait(cca_status, samples) ==
    IF samples = <<>> THEN cca_status
    ELSE LET status == BitOr(cca_status, Head(samples))
         IN IF status = 0 THEN status ELSE cca_busywait(status, Tail(samples))

\* lines 547-563 of a build with CCA_ENABLED: cca_status starts at 1; a
\* collision is declared, and the transmission skipped, when it ends at 0
tx_slot_cca(samples) ==
    LET cca_status == cca_busywait(1, samples)
    IN [cca_status |-> cca_status, collision |-> cca_status = 0]

\* the sequences of at most n samples of channel_clear
RECURSIVE SampleSeqs(_)
SampleSeqs(n) ==
    IF n = 0 THEN {<<>>}
    ELSE LET shorter == SampleSeqs(n - 1)
         IN shorter \cup {Append(q, b) : q \in shorter, b \in {0, 1}}

\* the number of busy samples of a sequence
RECURSIVE BusySamples(_)
BusySamples(samples) ==
    IF samples = <<>> THEN 0
    ELSE (IF Head(samples) = 0 THEN 1 ELSE 0) + BusySamples(Tail(samples))

\* the CCA window of a TX slot, with the samples channel_clear returns
CallTxSlotCca ==
    /\ fn.op = "none"
    /\ \E samples \in SampleSeqs(MaxSamples) \ {<<>>} :
          LET r == tx_slot_cca(samples)
          IN fn' = [NoFn EXCEPT !.op = "tx_slot_cca", !.a = BusySamples(samples),
                                !.b = Len(samples), !.c = r.cca_status,
                                !.res = IF r.collision THEN 1 ELSE 0]
    /\ FnFrame

\* the links of a schedule: every set of options, type and peer address (a
\* neighbor, or an address tsch_queue_get_nbr does not know)
FnLinks ==
    [link_options : SUBSET {LINK_OPTION_TX, LINK_OPTION_RX, LINK_OPTION_SHARED},
     link_type : {"NORMAL", "ADVERTISING", "ADVERTISING_ONLY"},
     addr : {n_broadcast, "n1", "other"},
     channel_offset : {0}]

\* the states of the neighbor queues: packets of each neighbor
FnQueues == [Nbrs -> 0..MaxQueued]

\* a call get_packet_and_neighbor_for_link(link, &n)
CallGetPacketAndNeighbor ==
    /\ fn.op = "none"
    /\ \E l \in FnLinks, q \in FnQueues :
          LET r == get_packet_and_neighbor_for_link(q, l)
          IN fn' = [NoFn EXCEPT !.op = "get_packet_and_neighbor_for_link",
                                !.link = l, !.q = q, !.p = r.p, !.n = r.n]
    /\ FnFrame

\* the status of a finished TX slot
TxStatuses == {MAC_TX_OK, MAC_TX_NOACK, MAC_TX_ERR}

\* the update of the CSMA state by a call update_neighbor_state(n, p, link,
\* mac_tx_status), the neighbor having the backoff exponent a
CallUpdateNeighborState ==
    /\ fn.op = "none"
    /\ \E n \in Nbrs, link \in Links, status \in TxStatuses, queue_empty \in BOOLEAN,
          exponent \in 0..MaxBackoff :
          fn' = [NoFn EXCEPT !.op = "update_neighbor_state", !.n = n, !.link = link,
                             !.status = status, !.queue_empty = queue_empty,
                             !.a = exponent,
                             !.update = backoff_update(n, link, status, queue_empty),
                             !.res = backoff_after(n, link, status, queue_empty,
                                                   exponent)]
    /\ FnFrame

InitFn == Init /\ workload = "timing"

\* GUARD_BEACON_TIME, in ticks
GUARD_BEACON_TIME == 2

\* lines 582-647 (build with GUARD_BEACON): the copies of a guard beacon a
\* coordinator sends in one slot, in order: the byte appended to the frame and
\* the offset from current_slot_start its transmission is scheduled at
gb_tx_copies ==
    <<[beacon_id |-> 17, offset |-> TS_TX_OFFSET - GUARD_BEACON_TIME],
      [beacon_id |-> 34, offset |-> TS_TX_OFFSET],
      [beacon_id |-> 51, offset |-> TS_TX_OFFSET + GUARD_BEACON_TIME]>>

\* a plausible slip: the last copy is corrected like the first
gb_rx_adjust_same_sign(estimated_drift, beaconOrder, is_gb, is_coordinator) ==
    IF is_gb /\ ~is_coordinator /\ beaconOrder \in {17, 51}
    THEN estimated_drift - GUARD_BEACON_TIME
    ELSE estimated_drift

\* lines 1071-1086 (build with GUARD_BEACON): estimated_drift after the
\* correction for the copy received
gb_rx_adjust(estimated_drift, beaconOrder, is_gb, is_coordinator) ==
    IF is_gb /\ ~is_coordinator
    THEN CASE beaconOrder = 17 -> estimated_drift - GUARD_BEACON_TIME
           [] beaconOrder = 34 -> estimated_drift
           [] beaconOrder = 51 -> estimated_drift + GUARD_BEACON_TIME
           [] OTHER -> estimated_drift
    ELSE estimated_drift

\* a coordinator whose slot starts at slot_start sends a guard beacon; a node
\* that is not coordinator, whose slot starts skew ticks later, receives one of
\* the copies at the instant it is sent (lines 866, 999, 1071-1086)
CallGuardBeacon ==
    /\ fn.op = "none"
    /\ \E slot_start \in TimerValues, skew \in -MaxCorrection..MaxCorrection,
          copy \in DOMAIN gb_tx_copies :
          LET rx_start_time == Wrap(slot_start + gb_tx_copies[copy].offset)
              expected_rx_time == Wrap(slot_start + skew + TS_TX_OFFSET)
              estimated_drift == RTIMER_CLOCK_DIFF(expected_rx_time, rx_start_time)
          IN fn' = [NoFn EXCEPT !.op = "guard_beacon", !.a = slot_start, !.b = skew,
                                !.c = copy, !.target = rx_start_time,
                                !.beacon_id = gb_tx_copies[copy].beacon_id,
                                !.estimated_drift = estimated_drift,
                                !.res = gb_rx_adjust(estimated_drift,
                                            gb_tx_copies[copy].beacon_id, TRUE, FALSE)]
    /\ FnFrame

NextFn ==
    \/ CallGuardBeacon
    \/ CallCheckTimerMiss
    \/ CallCalculateChannel
    \/ CallScheduleSlotOperation
    \/ CallAckDriftCorrection
    \/ CallTxSlotCca
    \/ CallGetPacketAndNeighbor
    \/ CallUpdateNeighborState

SpecFn == InitFn /\ [][NextFn]_vars

(***************************************************************************)
(* Scheduling: the rtimer keeps interrupting, the executor runs to its     *)
(* next yield, and a foreground caller gets the processor between the      *)
(* interrupts                                                              *)
(***************************************************************************)
Fairness ==
    /\ WF_vars(Executor)
    /\ WF_vars(StartReturn)
    /\ \A f \in Procs : SF_vars(tsch_get_lock(f) /\ LockUnchanged)

SpecLive == Init /\ [][Next]_vars /\ Fairness

(***************************************************************************)
(* Properties                                                              *)
(***************************************************************************)
\* C1: in every reachable state tsch_in_slot_operation = 1 implies
\* tsch_locked = 0: the executor is never inside a slot while a foreground
\* caller holds the lock
C1_NoSlotWhileLocked == tsch_in_slot_operation = 1 => tsch_locked = 0

\* what a finished call of tsch_get_lock by f leaves: the lock held by f with the
\* request cleared, or 0 returned while a peer has tsch_locked set
GetLockReturnOk(f) ==
    /\ (fpc[f] # "idle" /\ fpc'[f] = "idle") =>
          \/ fres'[f] = 1 /\ tsch_locked' = 1 /\ tsch_lock_requested' = 0
          \/ /\ fres'[f] = 0 /\ tsch_locked = 1
             /\ \E g \in Procs \ {f} : fres[g] = 1 \/ fpc[g] = "clear"
    /\ (fpc[f] = "idle" /\ fpc'[f] = "idle" /\ fres[f] = -1 /\ fres'[f] = 0) =>
          /\ tsch_locked = 1
          /\ \E g \in Procs \ {f} : fres[g] = 1 \/ fpc[g] = "clear"

\* C2: every call of tsch_get_lock eventually returns, and on return the caller
\* holds the lock (result 1, tsch_locked = 1, tsch_lock_requested = 0) or got 0
\* because a peer had set tsch_locked
C2_GetLockReturns ==
    /\ \A f \in Procs : (fpc[f] # "idle") ~> (fpc[f] = "idle")
    /\ [][\A f \in Procs : GetLockReturnOk(f)]_vars

\* C3: with tsch_lock_requested set or current_link NULL at the top of an
\* iteration the slot is skipped: tsch_in_slot_operation stays 0, no packet or
\* neighbor is selected, no channel is set, neither TX nor RX runs, and control
\* goes to the resynchronisation check
C3_SkippedSlot ==
    [][(epc = "top" /\ tsch_is_associated
        /\ (tsch_lock_requested # 0 \/ current_link = NULL)) =>
          /\ tsch_in_slot_operation = 0 /\ tsch_in_slot_operation' = 0
          /\ UNCHANGED <<current_packet, current_neighbor, current_channel,
                         radio_channel, radio_on, current_link, backup_link>>
          /\ epc' = "end_slot"]_vars

\* a slot with a link was skipped for a pending lock request
C3_Witness ==
    /\ epc = "end_slot"
    /\ tsch_lock_requested = 1 /\ current_link # NULL
    /\ tsch_in_slot_operation = 0

\* C4: after tsch_slot_operation_sync(next_slot_start, next_slot_asn),
\* current_slot_start = next_slot_start, tsch_current_asn = next_slot_asn,
\* last_sync_asn = tsch_current_asn and current_link = NULL; the lock flags, the
\* rings and the drift state are unchanged
C4_SyncEffect ==
    [][(apc = "off" /\ apc' = "synced") =>
          /\ current_slot_start' = sync_arg'.start
          /\ tsch_current_asn' = sync_arg'.asn
          /\ last_sync_asn' = tsch_current_asn'
          /\ TSCH_ASN_DIFF(tsch_current_asn', last_sync_asn') = 0
          /\ current_link' = NULL
          /\ UNCHANGED <<tsch_locked, tsch_lock_requested, dqVars, inVars,
                         drift_correction, is_drift_correction_used>>]_vars

\* a synchronisation on a later ASN, made while the lock is held
C4_Witness ==
    /\ apc = "synced"
    /\ sync_arg.asn = 1 /\ tsch_current_asn = 1 /\ last_sync_asn = 1
    /\ current_slot_start = sync_arg.start
    /\ current_link = NULL
    /\ tsch_locked = 1

\* C5: tsch_slot_operation_start returns only after a timer was armed: each
\* pass fetches the next link, advances the ASN by slots_until (1 without a
\* link) and current_slot_start by slots_until timeslots, and is repeated until
\* the scheduling succeeds; on return current_link is the link of the last pass
\* and the timer target is the new current_slot_start
C5_StartArmsTimer ==
    [][/\ (apc = "start" /\ apc' = "start_ret") =>
             /\ pass'.diff = (IF pass'.link = NULL THEN 1
                              ELSE SlotsUntilNext(tsch_current_asn))
             /\ tsch_current_asn' = tsch_current_asn + pass'.diff
             /\ current_slot_start' =
                    Wrap(current_slot_start + pass'.diff * TS_TIMESLOT_LENGTH)
       /\ (apc = "start_ret" /\ pass.ret = 0) => apc' = "start"
       /\ (apc = "start_ret" /\ apc' = "running") =>
             /\ pass.ret = 1
             /\ timer_armed /\ timer_target = current_slot_start
             /\ current_link = pass.link
             /\ UNCHANGED <<timer_armed, timer_target, current_link,
                            current_slot_start>>]_vars

\* the start is about to return from a pass that is not its first
C5_Witness ==
    /\ apc = "start_ret" /\ pass.site = "start" /\ pass.ret = 1
    /\ pass.ref # sync_arg.start
    /\ timer_armed /\ timer_target = current_slot_start

\* C6: tsch_calculate_channel returns the element of the hopping sequence at
\* index ((asn mod L) + channel_offset) mod L, an index in 0..L-1
C6_ChannelInSequence ==
    fn.op = "tsch_calculate_channel" =>
        LET L == tsch_hopping_sequence_length
            index == ((fn.a % L) + fn.b) % L
        IN /\ index \in 0..(L - 1)
           /\ fn.res = tsch_hopping_sequence[index + 1]
           /\ \E i \in 1..L : fn.res = tsch_hopping_sequence[i]

\* a call whose index wraps around the end of the sequence
C6_Witness ==
    /\ fn.op = "tsch_calculate_channel"
    /\ fn.a = 7 /\ fn.b = 3
    /\ fn.res = 26

\* C7: check_timer_miss(ref, offset, now) is true exactly when
\* (now - ref) mod 2^W >= offset, in all four combinations of now and target
\* having wrapped
C7_TimerMissExact ==
    fn.op = "check_timer_miss" =>
        ((fn.res = 1) <=> (Wrap(fn.c - fn.a) >= fn.b))

\* now has wrapped and the target has not: the deadline is missed
C7_Witness ==
    /\ fn.op = "check_timer_miss"
    /\ fn.c < fn.a /\ Wrap(fn.a + fn.b) >= fn.a /\ fn.b > 0
    /\ fn.res = 1

\* C8 as stated: tsch_schedule_slot_operation returns 0 and arms no timer when
\* check_timer_miss(ref, offset - RTIMER_GUARD, now) is true, and otherwise arms
\* the timer at ref + offset and returns 1, so that 0 always means a missed
\* deadline
C8_ZeroMeansMissed ==
    fn.op = "tsch_schedule_slot_operation" =>
        IF Wrap(fn.c - fn.a) >= Wrap(fn.b - RTIMER_GUARD)
        THEN fn.res = 0 /\ ~fn.armed
        ELSE fn.res = 1 /\ fn.armed /\ fn.target = Wrap(fn.a + fn.b)

\* what the code does instead: tsch_schedule_slot_operation returns 0 and arms
\* no timer when the deadline less RTIMER_GUARD is missed or when rtimer_set
\* fails; otherwise it arms the timer at ref + offset and returns 1
C8_ScheduleOrRefuse ==
    fn.op = "tsch_schedule_slot_operation" =>
        IF Wrap(fn.c - fn.a) >= Wrap(fn.b - RTIMER_GUARD) \/ ~fn.r_ok
        THEN fn.res = 0 /\ ~fn.armed
        ELSE fn.res = 1 /\ fn.armed /\ fn.target = Wrap(fn.a + fn.b)

\* the deadline is not missed and rtimer_set fails: 0 is returned
C8_Witness ==
    /\ fn.op = "tsch_schedule_slot_operation"
    /\ Wrap(fn.c - fn.a) < Wrap(fn.b - RTIMER_GUARD)
    /\ ~fn.r_ok
    /\ fn.res = 0

\* C9: every pass of the reschedule loop adds slots_until >= 1 to the ASN
\* (1 without a next link) and the executor changes the ASN nowhere else
C9_AsnMonotonic ==
    [][/\ (epc = "resched") =>
             /\ pass'.diff = (IF current_link' = NULL THEN 1
                              ELSE SlotsUntilNext(tsch_current_asn))
             /\ pass'.diff >= 1
             /\ tsch_current_asn' = tsch_current_asn + pass'.diff
             /\ tsch_current_asn' > tsch_current_asn
       /\ (tsch_current_asn' # tsch_current_asn) =>
             (epc = "resched" \/ apc = "off" \/ apc = "start")]_vars

\* a pass without a next link that missed its deadline: one slot further
C9_Witness ==
    /\ epc = "sched_ret" /\ pass.site = "main"
    /\ current_link = NULL /\ pass.diff = 1 /\ pass.ret = 0
    /\ tsch_current_asn >= 3

\* C10: every pass of the reschedule loop advances current_slot_start, modulo
\* the timer width, by slots_until timeslots plus the pending drift correction
\* plus the adaptive compensation, with the slots_until added to the ASN
C10_SlotStartAdvance ==
    [][(epc = "resched") =>
          /\ pass'.drift = drift_correction
          /\ current_slot_start' =
                 Wrap(current_slot_start + pass'.diff * TS_TIMESLOT_LENGTH
                      + drift_correction + pass'.comp)
          /\ tsch_current_asn' = tsch_current_asn + pass'.diff]_vars

\* a pass with a pending drift correction and a compensation
C10_Witness ==
    /\ epc = "sched_ret" /\ pass.site = "main"
    /\ pass.drift # 0 /\ pass.comp # 0 /\ pass.diff = 2

(***************************************************************************)
(* C11: the drift correction taken from an enhanced ACK                    *)
(***************************************************************************)
\* the ACK of a unicast TX slot was read and parsed and the neighbor is a time
\* source
AckFromTimeSource ==
    /\ epc = "ack_bw"
    /\ epc' = "tx_post"
    /\ mac_tx_status' = MAC_TX_OK
    /\ current_neighbor # NULL
    /\ is_time_source(current_neighbor)

Abs(x) == IF x < 0 THEN -x ELSE x

Sign(x) == IF x < 0 THEN -1 ELSE IF x > 0 THEN 1 ELSE 0

PrepareFailed ==
    /\ epc = "tx_begin"
    /\ epc' = "tx_post"

\* C18: when prepare fails, the status recorded in the packet and used for the
\* neighbor update is MAC_TX_ERR, whatever the earlier TX slots did
C18_PrepareFailureIsError ==
    [][PrepareFailed => mac_tx_status' = MAC_TX_ERR]_vars

(***************************************************************************)
(* C16: leaving the network when the synchronisation is too old            *)
(***************************************************************************)
\* the executor takes the resynchronisation check of line 1219
EndOfIteration ==
    /\ epc = "end_slot"
    /\ epc' # "end_slot"

\* the executor leaves the network: no wake-up is armed and the protothread
\* is back at its start
Disassociates ==
    /\ last_timesource_neighbor' = NULL
    /\ tsch_is_associated' = FALSE
    /\ timer_armed' = FALSE
    /\ tsch_in_slot_operation' = 0
    /\ epc' = "susp_main"

\* C16: at the end of an iteration the executor disassociates exactly when the
\* node is not the coordinator and the ASN is more than DESYNC_SLOTS past
\* last_sync_asn; at a difference equal to DESYNC_SLOTS, and on a coordinator,
\* it goes on to schedule the next slot
C16_DesyncIffExceeded ==
    [][EndOfIteration =>
          /\ Disassociates <=>
                (~tsch_is_coordinator
                 /\ TSCH_ASN_DIFF(tsch_current_asn, last_sync_asn) > DESYNC_SLOTS)
          /\ ~Disassociates =>
                /\ epc' = "resched"
                /\ tsch_is_associated' = tsch_is_associated
                /\ last_timesource_neighbor' = last_timesource_neighbor]_vars

\* a node that is not the coordinator is about to reschedule after an
\* iteration that ended exactly DESYNC_SLOTS after its last synchronisation
C16_Witness ==
    /\ epc = "resched"
    /\ pass = NoPass
    /\ ~tsch_is_coordinator
    /\ tsch_is_associated
    /\ TSCH_ASN_DIFF(tsch_current_asn, last_sync_asn) = DESYNC_SLOTS

(***************************************************************************)
(* C13: the retry bound                                                    *)
(***************************************************************************)
\* the TX sub-procedure of a slot ends: at line 494 without a ring slot, or at
\* line 822 after the post-processing
TxSlotEnds ==
    /\ epc \in {"tx_begin", "tx_post"}
    /\ epc' = "end_slot"

\* the TX slots the current packet was bound in, the ending one included
SlotsDevoted ==
    IF epc = "tx_begin" THEN head_slots[current_packet] + 1
    ELSE head_slots[current_packet]

\* the current packet leaves its queue and is committed to the dequeued ring
RemovedAndCommitted ==
    /\ txq'[current_packet] = txq[current_packet] - 1
    /\ dq_count' = dq_count + 1
    /\ dq_committed' = Append(dq_committed, head_id[current_packet])

\* C13 as stated: a packet is removed and committed no later than the
\* (TSCH_MAC_MAX_FRAME_RETRIES + 1)-th TX slot it is bound in
C13_RetryBoundOverSlots ==
    [][(TxSlotEnds /\ SlotsDevoted >= TSCH_MAC_MAX_FRAME_RETRIES + 1) =>
          RemovedAndCommitted]_vars

\* C13: counting the TX slots in which the packet is bound and the dequeued
\* ring has a free slot at the start (the slots that count a transmission), a
\* packet is removed and committed no later than the
\* (TSCH_MAC_MAX_FRAME_RETRIES + 1)-th such slot, whatever the TX outcomes; a
\* slot that finds the ring full leaves the packet in its queue and counts
\* nothing
C13_RetryBoundOverTransmissions ==
    [][TxSlotEnds =>
          /\ (epc = "tx_post"
              /\ head_tx[current_packet] + 1 >= TSCH_MAC_MAX_FRAME_RETRIES + 1)
                => RemovedAndCommitted
          /\ epc = "tx_begin" =>
                /\ txq'[current_packet] = txq[current_packet]
                /\ head_tx'[current_packet] = head_tx[current_packet]
          /\ \A n \in Nbrs : head_tx'[n] <= TSCH_MAC_MAX_FRAME_RETRIES]_vars

\* a TX slot has just ended without an ACK and the packet, at its last allowed
\* transmission, has left its queue for the dequeued ring
C13_Witness ==
    /\ epc = "end_slot"
    /\ current_packet # NULL
    /\ mac_tx_status = MAC_TX_NOACK
    /\ txq[current_packet] = 0
    /\ dq_count > 0
    /\ Len(dq_committed) > 0

(***************************************************************************)
(* C15: the dequeued ring holds released packets only                      *)
(***************************************************************************)
\* I5: no entry of the dequeued ring is a packet of a neighbor queue
DequeuedAreReleased ==
    \A i \in 1..dq_count :
        LET p == RingContents(dequeued_array, dq_put_ptr, dq_count,
                              TSCH_DEQUEUED_ARRAY_SIZE)[i]
        IN /\ p # 0
           /\ \A n \in Nbrs : txq[n] > 0 => head_id[n] # p

\* C15: a packet is committed to the dequeued ring only in the TX slot that
\* removed it from its neighbor queue, and a packet kept in its queue for a
\* retransmission is not committed: the ring never holds a queued packet
C15_OnlyReleasedCommitted ==
    [][/\ dq_put_ptr' # dq_put_ptr =>
            /\ epc = "tx_post"
            /\ RemovedAndCommitted
            /\ dequeued_array'[dq_put_ptr] = head_id[current_packet]
       /\ (epc = "tx_post" /\ txq'[current_packet] = txq[current_packet]) =>
            UNCHANGED <<dq_put_ptr, dq_count, dequeued_array, dq_committed>>
       /\ DequeuedAreReleased']_vars

\* a TX slot has just kept its packet for a retransmission while the ring holds
\* an earlier packet
C15_Witness ==
    /\ epc = "end_slot"
    /\ current_packet # NULL
    /\ txq[current_packet] > 0
    /\ head_tx[current_packet] > 0
    /\ dq_count > 0

(***************************************************************************)
(* C19: a TX slot that finds the dequeued ring full                        *)
(***************************************************************************)
\* C19: when the dequeued ring has no free slot at the start of a TX slot the
\* slot ends at once: no timer is armed for a transmission, the radio is not
\* touched, the packet keeps its transmissions and ret and stays in its queue,
\* the backoff exponents and the ring are unchanged
C19_FullRingAborts ==
    [][(epc = "tx_begin" /\ dq_count >= TSCH_DEQUEUED_ARRAY_SIZE) =>
          /\ epc' = "end_slot"
          /\ UNCHANGED <<txq, head_tx, head_id, head_ret, backoff_exponent,
                         dq_count, dq_put_ptr, dequeued_array, dq_committed,
                         mac_tx_status, timer_armed, timer_target,
                         radio_on, radio_channel, now>>]_vars

\* a TX slot has just ended at line 494: its packet is still queued, untouched,
\* and the ring is full
C19_Witness ==
    /\ epc = "end_slot"
    /\ tsch_in_slot_operation = 1
    /\ current_packet # NULL
    /\ txq[current_packet] > 0
    /\ head_tx[current_packet] = 0
    /\ head_ret[current_packet] = MAC_TX_DEFERRED
    /\ head_slots[current_packet] > 0
    /\ dq_count >= TSCH_DEQUEUED_ARRAY_SIZE

(***************************************************************************)
(* C14: the rings between the executor and the foreground                  *)
(***************************************************************************)
\* no entry twice in a sequence
NoDuplicate(seq) ==
    \A i \in 1..Len(seq) : \A j \in 1..Len(seq) : seq[i] = seq[j] => i = j

\* what was committed to a ring is, in commit order, what its consumer has
\* obtained followed by what the ring holds, and the entry the consumer is
\* handling is the oldest one of the ring
RingInOrder(committed, consumed, polled, array, put_ptr, count, size) ==
    LET held == RingContents(array, put_ptr, count, size)
    IN /\ committed = consumed \o held
       /\ NoDuplicate(committed)
       /\ polled # 0 => (count > 0 /\ polled = held[1])

\* the packets handed to the queues are queued or committed: none is lost
NoPacketLost ==
    \A p \in 1..(next_id - 1) :
        \/ \E n \in Nbrs : txq[n] > 0 /\ head_id[n] = p
        \/ \E i \in 1..Len(dq_committed) : dq_committed[i] = p

\* C14: every entry the executor commits to dequeued_ringbuf or input_ringbuf
\* is obtained by the foreground consumer once and in commit order, with the
\* content it was committed with, wherever the consumer runs between the
\* suspension points of the executor; no packet is lost
C14_RingsAreSpsc ==
    /\ RingInOrder(dq_committed, dq_consumed, tx_polled, dequeued_array, dq_put_ptr,
                   dq_count, TSCH_DEQUEUED_ARRAY_SIZE)
    /\ RingInOrder(in_committed, in_consumed, rx_polled, input_array, in_put_ptr,
                   in_count, TSCH_MAX_INCOMING_PACKETS)
    /\ NoPacketLost
    /\ epc = "rx_fin" => input_array[in_put_ptr] = rxf.id

\* the consumer of the dequeued ring, one packet obtained, is handling the next
\* one while the executor is suspended in the middle of a TX slot, between its
\* peek-put and its put, and the input ring has been consumed from as well
C14_Witness ==
    /\ Len(dq_consumed) > 0
    /\ tx_polled # 0
    /\ epc = "ack_susp"
    /\ Len(in_consumed) > 0

(***************************************************************************)
(* C20: an RX slot that finds the input ring full                          *)
(***************************************************************************)
\* C20: when the input ring has no free slot at the start of an RX slot the
\* dropped counter is incremented and the radio is emptied all the same: no
\* frame stays pending in it
C20_FullRingStillDrains ==
    [][(epc = "rx_begin" /\ in_count >= TSCH_MAX_INCOMING_PACKETS) =>
          /\ input_queue_drop' =
                (IF input_queue_drop < MaxDrop THEN input_queue_drop + 1
                 ELSE input_queue_drop)
          /\ radio_pending' = FALSE]_vars

(***************************************************************************)
(* C17: a busy channel in the CCA window                                   *)
(***************************************************************************)
\* C17: with CCA enabled, when channel_clear reports busy for at least one
\* sample of the CCA window the slot declares a collision: the transmission is
\* skipped and the status is MAC_TX_COLLISION
C17_BusyChannelIsCollision ==
    (fn.op = "tx_slot_cca" /\ fn.a > 0) => fn.res = 1

\* the input ring was committed by this step
InputCommitted ==
    \/ in_put_ptr' # in_put_ptr
    \/ in_count' > in_count
    \/ in_committed' # in_committed

\* this step read a frame from the radio and rejected it: malformed,
\* unauthenticated, or addressed to another node
FrameRejected ==
    /\ epc = "rx_listen"
    /\ next_frame' # next_frame
    /\ ~(rxf'.valid /\ rxf'.for_us)

\* C21: the input ring is committed in an RX slot only if a frame was read, was
\* found valid and is addressed to this node or to the broadcast address; for a
\* rejected frame the put index is unchanged and no ACK is sent
C21_CommitOnlyAccepted ==
    [][/\ InputCommitted =>
             /\ epc = "rx_fin"
             /\ rxf.seen /\ rxf.valid /\ rxf.for_us
             /\ input_array[in_put_ptr] = rxf.id
             /\ in_committed' = Append(in_committed, rxf.id)
       /\ FrameRejected =>
             /\ rxf'.seen
             /\ UNCHANGED <<in_put_ptr, in_count, in_committed>>
             /\ epc' = "end_slot"
             /\ UNCHANGED <<timer_armed, timer_target>>
       /\ (epc = "rxack_bw" /\ epc' = "rx_fin") =>
             rxf.seen /\ rxf.valid /\ rxf.for_us /\ rxf.ack_required]_vars

\* a frame for another node was read and rejected after an earlier frame had
\* been committed
C21_Witness ==
    /\ epc = "end_slot"
    /\ rxf.seen /\ rxf.valid /\ ~rxf.for_us
    /\ rxf.id = 2 /\ input_array[in_put_ptr] = 2
    /\ in_committed = <<1>> /\ in_put_ptr = 1

\* the executor suspends in this step: a PT_YIELD of TSCH_SCHEDULE_AND_YIELD or
\* the PT_YIELD that ends an iteration of the main loop
ExecutorSuspends == epc \in {"sched_ret", "end_slot"} /\ epc' \in SuspPcs

\* a TSCH_SCHEDULE_AND_YIELD whose scheduling armed no timer goes to its busy-wait
NoYieldWithoutTimer ==
    (epc = "sched_ret" /\ pass.site \in DOMAIN SiteWait /\ pass.ret = 0) =>
        /\ epc' = SiteWait[pass.site]
        /\ wait_until' = Wrap(pass.ref + pass.offset + RTIMER_GUARD)
        /\ UNCHANGED <<timer_armed, timer_target, now>>

\* C22 as stated: whenever the executor suspends, at a TSCH_SCHEDULE_AND_YIELD of
\* the TX or RX sub-procedure or at the yield that ends an iteration of the main
\* loop, the iteration that disassociates included, a timer is armed at an
\* absolute target; a TSCH_SCHEDULE_AND_YIELD that missed goes to the busy-wait
C22_EverySuspensionArmed ==
    [][/\ ExecutorSuspends => timer_armed'
       /\ NoYieldWithoutTimer]_vars

\* C22, amended: the executor suspends with a timer armed at the target of its
\* last scheduling at every TSCH_SCHEDULE_AND_YIELD that yields and at the end of
\* every iteration that reschedules; the iteration that disassociates on desync
\* yields with no timer armed; a TSCH_SCHEDULE_AND_YIELD that armed no timer
\* does not suspend and goes to its busy-wait
C22_SuspensionArmedUnlessDesync ==
    [][/\ (ExecutorSuspends /\ epc = "sched_ret") =>
             /\ pass.ret = 1
             /\ timer_armed' /\ timer_target' = Wrap(pass.ref + pass.offset)
       /\ (ExecutorSuspends /\ epc = "end_slot") =>
             /\ NeedResync(tsch_is_coordinator, tsch_current_asn, last_sync_asn)
             /\ ~timer_armed' /\ ~tsch_is_associated'
       /\ NoYieldWithoutTimer]_vars

\* the executor sleeps inside a TX slot, waiting for the ACK, with its timer
\* armed one guard before the instant its busy-wait ends at
C22_Witness ==
    /\ epc = "ack_susp"
    /\ timer_armed /\ Wrap(timer_target + RTIMER_GUARD) = wait_until
    /\ RTIMER_CLOCK_LT(now, timer_target)

\* tsch_schedule_slot_operation returned 0 to the rescheduling loop
MissReported == epc = "sched_ret" /\ pass.site = "main" /\ pass.ret = 0

\* the packets of the queues and of the dequeued ring, and their counters
PacketState == <<txq, head_tx, head_id, head_ret, dq_count, dq_put_ptr, dequeued_array>>

\* C23: when tsch_schedule_slot_operation reports a miss in the rescheduling
\* loop, the loop fetches the following link, advances the ASN and
\* current_slot_start again and retries; the loop ends, and it ends with a timer
\* armed; no packet leaves a queue and no transmissions counter changes in the
\* passes
C23_MissedDeadlineProgress ==
    /\ [][/\ MissReported => (epc' = "resched" /\ UNCHANGED PacketState)
          /\ (epc = "resched") =>
                /\ \E r \in ScheduleResults(tsch_current_asn) :
                      /\ current_link' = r.link
                      /\ tsch_current_asn' = tsch_current_asn + NextDiff(r)
                      /\ current_slot_start' =
                            Wrap(current_slot_start + NextDiff(r) * TS_TIMESLOT_LENGTH
                                 + pass'.drift + pass'.comp)
                /\ tsch_current_asn' > tsch_current_asn
                /\ UNCHANGED PacketState
          /\ (epc = "sched_ret" /\ pass.site = "main" /\ epc' = "susp_main") =>
                /\ pass.ret = 1
                /\ timer_armed' /\ timer_target' = Wrap(pass.ref + pass.offset)
                /\ UNCHANGED PacketState]_vars
    /\ (epc = "resched") ~> (epc = "susp_main" /\ timer_armed)

\* the loop ends in a pass made from the start of a slot that lies ahead, the
\* slot whose wake-up was missed, with a packet transmitted once in its queue
C23_Witness ==
    /\ epc = "sched_ret" /\ pass.site = "main" /\ pass.ret = 1
    /\ RTIMER_CLOCK_LT(now, pass.ref)
    /\ timer_armed
    /\ txq["n1"] = 1 /\ head_tx["n1"] = 1

\* the call of get_packet_and_neighbor_for_link that fn holds
BindingCall == fn.op = "get_packet_and_neighbor_for_link"

\* the link of the call is an advertising link
BindingAdvertising == fn.link.link_type \in {"ADVERTISING", "ADVERTISING_ONLY"}

\* the neighbor keyed by the peer address of the link of the call
BindingPeer == IF fn.link.addr \in Nbrs THEN fn.link.addr ELSE NULL

\* C24: get_packet_and_neighbor_for_link returns (1) no packet and a NULL
\* neighbor for a link without the TX option; (2) the packet of the EB neighbor,
\* with that neighbor, on an ADVERTISING or ADVERTISING_ONLY link when an EB is
\* ready; (3) no packet and the EB neighbor on an ADVERTISING_ONLY link without
\* an EB; (4) otherwise the packet of the neighbor of the peer address, and, if
\* that neighbor is the broadcast neighbor without a packet, the first unicast
\* packet with its neighbor
C24_LinkBinding ==
    BindingCall =>
        IF LINK_OPTION_TX \notin fn.link.link_options
        THEN fn.p = NULL /\ fn.n = NULL
        ELSE IF BindingAdvertising /\ fn.q[n_eb] > 0
        THEN fn.p = n_eb /\ fn.n = n_eb
        ELSE IF fn.link.link_type = "ADVERTISING_ONLY"
        THEN fn.p = NULL /\ fn.n = n_eb
        ELSE IF BindingPeer # NULL /\ fn.q[BindingPeer] > 0
        THEN fn.p = BindingPeer /\ fn.n = BindingPeer
        ELSE IF BindingPeer = n_broadcast /\ fn.q["n1"] > 0
        THEN fn.p = "n1" /\ fn.n = "n1"
        ELSE fn.p = NULL /\ fn.n = BindingPeer

\* an ADVERTISING_ONLY link to the broadcast address, with a unicast packet
\* queued and no EB: nothing is bound
C24_Witness ==
    /\ BindingCall
    /\ fn.link.link_type = "ADVERTISING_ONLY"
    /\ fn.link.link_options = {LINK_OPTION_TX, LINK_OPTION_SHARED}
    /\ fn.link.addr = n_broadcast
    /\ fn.q[n_eb] = 0 /\ fn.q[n_broadcast] = 0 /\ fn.q["n1"] = 1
    /\ fn.p = NULL /\ fn.n = n_eb

\* the top of an iteration that is not skipped (lines 1168-1212)
SlotNotSkipped ==
    /\ epc = "top" /\ tsch_is_associated
    /\ current_link # NULL /\ tsch_lock_requested = 0

\* the first selection of the iteration found no packet
FirstSelectionEmpty ==
    get_packet_and_neighbor_for_link(txq, LinkTable[current_link]).p = NULL

\* C25: the executor replaces current_link by backup_link and selects again if
\* and only if the first selection found no packet, current_link has no RX
\* option and backup_link is not NULL; otherwise the slot is executed on the
\* link that was scheduled
C25_BackupLinkRule ==
    [][SlotNotSkipped =>
          IF /\ FirstSelectionEmpty
             /\ LINK_OPTION_RX \notin LinkTable[current_link].link_options
             /\ backup_link # NULL
          THEN /\ current_link' = backup_link
               /\ LET again == get_packet_and_neighbor_for_link(txq, LinkTable[backup_link])
                  IN current_packet' = again.p /\ current_neighbor' = again.n
          ELSE /\ current_link' = current_link
               /\ LET first == get_packet_and_neighbor_for_link(txq, LinkTable[current_link])
                  IN current_packet' = first.p /\ current_neighbor' = first.n]_vars

\* the slot of the dedicated TX link had no packet and listens on its backup
\* link
C25_Witness ==
    /\ epc = "rx_begin"
    /\ Slotframe[(tsch_current_asn % SlotframeLength) + 1] = "tx"
    /\ current_link = "rx" /\ backup_link = "rx"
    /\ current_packet = NULL

\* the positions of the executor inside tsch_tx_slot and tsch_rx_slot
SubPcs == {"tx_begin", "tx_susp", "tx_bw", "ack_susp", "ack_bw", "tx_post",
           "rx_begin", "rx_susp", "rx_bw", "rx_listen", "rxack_susp", "rxack_bw",
           "rx_fin"}

\* C26: in an iteration that is not skipped the slot is active iff a packet is
\* bound or the link, the backup link if it was taken, has the RX option; in an
\* active slot the radio channel is set to tsch_calculate_channel of the ASN and
\* the channel offset of the link before any TX or RX step, TX runs iff a packet
\* is bound and RX runs otherwise; in an inactive slot the channel is unchanged
\* and neither runs
C26_SlotDispatch ==
    [][/\ SlotNotSkipped =>
             IF current_packet' # NULL
                \/ LINK_OPTION_RX \in LinkTable[current_link'].link_options
             THEN /\ radio_channel' =
                        tsch_calculate_channel(tsch_current_asn,
                                               LinkTable[current_link'].channel_offset)
                  /\ current_channel' = radio_channel'
                  /\ epc' = IF current_packet' # NULL THEN "tx_begin" ELSE "rx_begin"
             ELSE /\ UNCHANGED <<radio_channel, current_channel>>
                  /\ epc' = "end_slot"
       /\ (epc' \in SubPcs /\ epc \notin SubPcs /\ epc # "sched_ret") => epc = "top"
       /\ (epc \in SubPcs) =>
             /\ radio_channel =
                   tsch_calculate_channel(tsch_current_asn,
                                          LinkTable[current_link].channel_offset)
             /\ UNCHANGED <<radio_channel, current_channel>>
             /\ (epc \in {"tx_begin", "tx_susp", "tx_bw", "ack_susp", "ack_bw", "tx_post"})
                    = (current_packet # NULL)]_vars

\* a slot without a packet on a link without the RX option and without a backup
\* link: nothing runs and the channel is the one of an earlier RX slot
C26_Witness ==
    /\ epc = "end_slot"
    /\ current_link = "txsh" /\ backup_link = NULL /\ current_packet = NULL
    /\ tsch_in_slot_operation = 1
    /\ tsch_current_asn = 4
    /\ radio_channel = tsch_calculate_channel(3, LinkTable["rx"].channel_offset)

\* the end of a TX slot that had reserved a slot of the dequeued ring
PostTx == epc = "tx_post"

\* the packet bound in the slot leaves its queue in this step
PacketRemoved ==
    /\ txq'[current_neighbor] = txq[current_neighbor] - 1
    /\ head_id'[current_neighbor] # head_id[current_neighbor]

\* the packet bound in the slot stays at the head of its queue in this step
PacketKept ==
    /\ txq'[current_neighbor] = txq[current_neighbor]
    /\ head_id'[current_neighbor] = head_id[current_neighbor]

\* C27: after a TX slot that reserved a ring slot the packet is removed from
\* its queue iff the status is MAC_TX_OK or its transmissions, this slot
\* counted, are at least MAX_FRAME_RETRIES + 1; otherwise it stays queued; the
\* transmissions are incremented exactly once in such a slot, whatever the
\* status
C27_PostTxRemoval ==
    [][/\ PostTx =>
             LET transmissions == head_tx[current_neighbor] + 1
             IN /\ mac_tx_status' = mac_tx_status
                /\ IF \/ mac_tx_status = MAC_TX_OK
                      \/ transmissions >= TSCH_MAC_MAX_FRAME_RETRIES + 1
                   THEN PacketRemoved
                   ELSE /\ PacketKept
                        /\ head_tx'[current_neighbor] = transmissions
                        /\ head_ret'[current_neighbor] = mac_tx_status
       /\ (head_tx' # head_tx /\ next_id' = next_id) => PostTx
       /\ (txq' # txq /\ next_id' = next_id) => PostTx]_vars

\* a packet left its queue after its second unacknowledged transmission
C27_Witness ==
    /\ epc = "end_slot"
    /\ current_packet = "n1" /\ mac_tx_status = MAC_TX_NOACK
    /\ tsch_current_asn = 4
    /\ txq["n1"] = 0 /\ head_tx["n1"] = 0
    /\ dq_committed = <<1>>

\* the call of update_neighbor_state that fn holds
BackoffCall == fn.op = "update_neighbor_state"

\* C28: after a TX slot to a unicast neighbor the backoff is reset iff the
\* status is OK and the link is SHARED or the neighbor queue is empty after the
\* removal; the exponent is incremented iff the status is not OK and the link is
\* SHARED; a failure on a dedicated link and any transmission to a broadcast
\* neighbor leave the backoff state unchanged
C28_BackoffUpdate ==
    BackoffCall =>
        LET shared == LINK_OPTION_SHARED \in LinkTable[fn.link].link_options
            unicast == fn.n \notin {n_eb, n_broadcast}
            ok == fn.status = MAC_TX_OK
        IN /\ (fn.update = "reset") = (unicast /\ ok /\ (shared \/ fn.queue_empty))
           /\ (fn.update = "inc") = (unicast /\ ~ok /\ shared)
           /\ fn.update \in {"reset", "inc", "none"}
           /\ (fn.update = "reset") => fn.res = 0
           /\ (fn.update = "inc") => (fn.res = fn.a + 1 \/ fn.res = MaxBackoff)
           /\ (fn.update = "none") => fn.res = fn.a
           /\ (~unicast \/ (~ok /\ ~shared)) => fn.res = fn.a

\* a success on a dedicated link that leaves packets in the queue of the
\* unicast neighbor: its backoff is kept
C28_Witness ==
    /\ BackoffCall
    /\ fn.n = "n1" /\ fn.link = "tx" /\ fn.status = MAC_TX_OK /\ ~fn.queue_empty
    /\ fn.a = 1 /\ fn.res = 1 /\ fn.update = "none"

\* the neighbor queues or the dequeued ring are modified by the executor in
\* this step
QueueModified ==
    /\ next_id' = next_id
    /\ \/ txq' # txq
       \/ head_tx' # head_tx
       \/ head_id' # head_id
       \/ head_ret' # head_ret
       \/ backoff_exponent' # backoff_exponent
       \/ dq_put_ptr' # dq_put_ptr
       \/ dq_committed' # dq_committed

\* C29: in a TX slot the events come in the order prepare, transmit, ACK listen
\* and read, neighbor-queue update, ring commit; the ACK is listened for only
\* after a successful transmission to a unicast neighbor; a broadcast with a
\* successful transmission is OK without listening, a failed transmission is
\* ERR, a unicast ends OK or NOACK after the listening; the neighbor queue is
\* not modified before the final status of the slot is known
C29_TxOrdering ==
    [][\* prepare
       /\ (epc = "tx_begin") =>
             /\ epc' \in {"sched_ret", "tx_post", "end_slot"}
             /\ (epc' = "sched_ret") => pass'.site = "tx"
             /\ mac_tx_status' = mac_tx_status
       \* transmit, reached from the prepare only
       /\ (epc' = "tx_bw") =>
             \/ epc = "tx_susp"
             \/ epc = "sched_ret" /\ pass.site = "tx"
       /\ (epc = "tx_bw") =>
             \/ /\ mac_tx_status' = MAC_TX_OK
                /\ current_neighbor \in {n_eb, n_broadcast}
                /\ epc' = "tx_post"
             \/ /\ mac_tx_status' = MAC_TX_OK
                /\ current_neighbor \notin {n_eb, n_broadcast}
                /\ epc' = "sched_ret" /\ pass'.site = "ack"
             \/ /\ mac_tx_status' = MAC_TX_ERR
                /\ epc' = "tx_post"
       \* ACK listen, reached from a successful unicast transmission only
       /\ (epc' = "ack_bw") =>
             \/ epc = "ack_susp"
             \/ epc = "sched_ret" /\ pass.site = "ack"
       /\ (epc \in {"ack_susp", "ack_bw"}) =>
             /\ mac_tx_status = MAC_TX_OK
             /\ current_neighbor \notin {n_eb, n_broadcast}
       /\ (epc = "ack_bw") =>
             /\ mac_tx_status' \in {MAC_TX_OK, MAC_TX_NOACK}
             /\ epc' = "tx_post"
       \* queue update and ring commit, with the final status
       /\ (epc' = "tx_post") => epc \in {"tx_begin", "tx_bw", "ack_bw"}
       /\ QueueModified =>
             /\ epc = "tx_post" /\ epc' = "end_slot"
             /\ mac_tx_status' = mac_tx_status
             /\ head_ret'[current_neighbor] \in {mac_tx_status, MAC_TX_OK}
       /\ (epc = "tx_post") => epc' = "end_slot"]_vars

\* a broadcast packet was transmitted and is committed to the dequeued ring,
\* with the status OK, without a wait for an ACK
C29_Witness ==
    /\ epc = "end_slot"
    /\ current_packet = n_broadcast /\ current_neighbor = n_broadcast
    /\ mac_tx_status = MAC_TX_OK
    /\ RTIMER_CLOCK_LT(now, Wrap(current_slot_start + TS_TX_OFFSET + TS_RX_ACK_DELAY))
    /\ dq_committed = <<1>> /\ txq[n_broadcast] = 0

\* tsch_slot_operation_sync is called in this step
SyncCalled == apc = "off" /\ apc' = "synced"

\* this step ends the ACK wait of a TX slot with a valid enhanced ACK of a
\* neighbor flagged as time source
AckOfTimeSource ==
    /\ epc = "ack_bw" /\ mac_tx_status' = MAC_TX_OK
    /\ current_neighbor = "n1" /\ ~tsch_is_coordinator

\* this step ends an RX slot that received a valid beacon, for this node or
\* broadcast, from a neighbor flagged as time source
BeaconOfTimeSource ==
    /\ epc = "rx_fin"
    /\ rxf.seen /\ rxf.valid /\ rxf.for_us /\ rxf.is_eb
    /\ rxf.src = "n1" /\ ~tsch_is_coordinator

FrameAccepted ==
    /\ epc = "rx_listen"
    /\ rxf'.seen /\ rxf'.valid /\ rxf'.for_us

\* d is a signed difference of two timer values
SignedTicks(d) == 2 * d >= -RTIMER_MOD /\ 2 * d < RTIMER_MOD

\* the beacon of the time source is committed and tsch_timesync_update is called
\* with the negated estimated drift and the slots since the last synchronisation
BeaconFeedsTimesync ==
    BeaconOfTimeSource =>
        /\ timesync_call'.called
        /\ timesync_call'.n = rxf.src
        /\ timesync_call'.time_delta_asn = tsch_current_asn - last_sync_asn
        /\ timesync_call'.drift_ticks + rxf.estimated_drift = 0
        /\ drift_correction' + rxf.estimated_drift = 0
        /\ in_committed' = Append(in_committed, rxf.id)

\* C31 as stated: the estimated drift of an accepted frame is rx_start minus the
\* expected instant slot_start + ts[tx_offset]; a beacon of the time source
\* calls tsch_timesync_update with minus that and is committed
C31_DriftIsRxMinusExpected ==
    [][/\ FrameAccepted =>
             /\ SignedTicks(rxf'.estimated_drift)
             /\ rxf'.rx_start_time =
                   Wrap(current_slot_start + TS_TX_OFFSET + rxf'.estimated_drift)
       /\ BeaconFeedsTimesync]_vars

\* C31, amended: the estimated drift of an accepted frame is the expected
\* instant slot_start + ts[tx_offset] minus rx_start (positive for an early
\* frame, negative for a late one); a beacon of the time source calls
\* tsch_timesync_update with minus that, i.e. rx_start minus the expected
\* instant, and with the slots since the last synchronisation, and is committed
C31_DriftIsExpectedMinusRx ==
    [][/\ FrameAccepted =>
             /\ SignedTicks(rxf'.estimated_drift)
             /\ Wrap(rxf'.rx_start_time + rxf'.estimated_drift) =
                   Wrap(current_slot_start + TS_TX_OFFSET)
       /\ BeaconFeedsTimesync]_vars

\* a beacon of the time source detected one tick after the expected instant was
\* committed: the update is by plus one tick
C31_Witness ==
    /\ epc = "end_slot"
    /\ timesync_call.called /\ timesync_call.n = "n1"
    /\ timesync_call.drift_ticks = 1
    /\ drift_correction = timesync_call.drift_ticks
    /\ in_committed # <<>>

\* this step ends the listening of an RX slot at the end of the guard time, the
\* radio having reported nothing
RxSlotIdle ==
    /\ epc = "rx_listen"
    /\ ~RTIMER_CLOCK_LT(now', Wrap(current_slot_start + TS_RX_OFFSET + TS_RX_WAIT))
    /\ ~rxf'.seen

\* what C32 says of an idle RX slot, but for the drop counter
IdleSlotEffect ==
    /\ radio_on' = FALSE
    /\ UNCHANGED <<input_array, in_put_ptr, in_count, in_committed, next_frame>>
    /\ epc' = "end_slot"
    /\ UNCHANGED <<timer_armed, timer_target>>
    /\ UNCHANGED <<drift_correction, is_drift_correction_used, timesync_call,
                   last_sync_asn>>

\* C32 as stated: an idle RX slot turns the radio off whatever the radio-on
\* policy, reads and commits nothing, sends no ACK, and leaves the drop counter,
\* the drift state and last_sync_asn unchanged
C32_IdleSlotKeepsDropCounter ==
    [][RxSlotIdle => (IdleSlotEffect /\ UNCHANGED input_queue_drop)]_vars

\* C32, amended: an idle RX slot turns the radio off whatever the radio-on
\* policy, reads and commits nothing, sends no ACK, leaves the drift state and
\* last_sync_asn unchanged, and does not increment the drop counter: a counter
\* left non-zero by earlier slots that found the input ring full is reset to 0
C32_IdleSlotResetsDropCounter ==
    [][RxSlotIdle => (IdleSlotEffect /\ input_queue_drop' = 0)]_vars

\* an idle RX slot of the build that keeps the radio on during the slot is over
\* (the clock is at the end of the guard time), with frames of earlier slots
\* waiting in the input ring
C32_Witness ==
    /\ epc = "end_slot"
    /\ now = Wrap(current_slot_start + TS_RX_OFFSET + TS_RX_WAIT)
    /\ radio_on_during_timeslot /\ ~radio_on
    /\ current_packet = NULL /\ ~rxf.seen
    /\ in_count > 0 /\ in_count < TSCH_MAX_INCOMING_PACKETS

\* the link the schedule gave for the slot that is ending or being skipped (the
\* executor may have replaced current_link by the backup link since)
ScheduledLink ==
    IF current_link = NULL THEN NULL
    ELSE Slotframe[(tsch_current_asn % SlotframeLength) + 1]

\* this step is one pass of the rescheduling loop: it ends a slot, or skips one
\* whose deadline was missed
ReschedulingPass == epc = "resched" /\ epc' = "sched_ret"

\* C33: in every pass of the rescheduling loop, tsch_queue_update_all_backoff_windows
\* is called, once and before the next link is fetched, with the address of the
\* slot's scheduled link if that link has the TX and the SHARED option, whatever
\* happened in the slot (transmission, no packet, backup link, skipped); it is
\* not called if the scheduled link lacks TX or SHARED
C33_BackoffWindowsOfScheduledLink ==
    [][ReschedulingPass =>
          pass'.backoff_addr =
             (IF /\ ScheduledLink # NULL
                 /\ HasOption(ScheduledLink, LINK_OPTION_TX)
                 /\ HasOption(ScheduledLink, LINK_OPTION_SHARED)
              THEN LinkTable[ScheduledLink].addr
              ELSE NULL)]_vars

\* what a slot does: it selects a packet, sets tsch_in_slot_operation, operates
\* the radio, advances the ASN or current_slot_start, arms a timer
NoSlotActivity ==
    /\ UNCHANGED <<current_packet, current_neighbor, tsch_in_slot_operation,
                   radio_on, radio_channel, tsch_current_asn, current_slot_start>>
    /\ ~timer_armed'

\* the protothread has ended (PT_END) or was never started: the node is not
\* associated and no wake-up of the executor is pending
ExecutorTerminated == epc = "susp_main" /\ ~tsch_is_associated /\ ~timer_armed

\* C34 as stated: whenever the executor is re-entered while the node is not
\* associated, wherever it was suspended, none of its steps does anything of a
\* slot, and nothing happens after a disassociation
C34_NoActivityOnceDisassociated ==
    [][(~tsch_is_associated /\ epc' # epc) => NoSlotActivity]_vars

\* C34, amended: re-entered at the top of its loop while the node is not
\* associated, the executor terminates and does nothing of a slot; once it has
\* terminated it does not run, and nothing of a slot happens, until the node is
\* synchronised and started again (a slot that was suspended in tsch_tx_slot or
\* tsch_rx_slot when the node was disassociated is not covered: it runs to its
\* end)
C34_TerminatesAtLoopHead ==
    [][/\ (epc = "top" /\ ~tsch_is_associated) =>
             (NoSlotActivity /\ epc' = "susp_main")
       /\ ExecutorTerminated =>
             /\ epc' = epc
             /\ UNCHANGED <<current_packet, current_neighbor, tsch_in_slot_operation,
                            radio_on, radio_channel, timer_armed>>
             /\ (UNCHANGED <<tsch_current_asn, current_slot_start>> \/ SyncCalled)]_vars

\* a coordinator that ran slots was disassociated by the foreground and its
\* executor has terminated at the next wake-up
C34_Witness ==
    /\ ExecutorTerminated
    /\ tsch_is_coordinator /\ apc = "off"
    /\ tsch_in_slot_operation = 0
    /\ tsch_current_asn > 1

\* C35: the copies of a guard beacon are tagged 0x11, 0x22, 0x33 in the order
\* sent and targeted at ts[tx_offset] - GUARD_BEACON_TIME, ts[tx_offset] and
\* ts[tx_offset] + GUARD_BEACON_TIME; the receiver changes its estimated drift
\* by -GUARD_BEACON_TIME, 0 or +GUARD_BEACON_TIME according to the tag, and the
\* result is the same for the three copies (the skew of the two slot starts)
C35_GuardBeaconCopies ==
    fn.op = "guard_beacon" =>
        /\ fn.beacon_id = 17 * fn.c
        /\ fn.target = Wrap(fn.a + TS_TX_OFFSET + (fn.c - 2) * GUARD_BEACON_TIME)
        /\ fn.res - fn.estimated_drift = (fn.c - 2) * GUARD_BEACON_TIME
        /\ fn.res = fn.b

\* the third copy, received by a node whose slot starts one tick after the
\* coordinator's: estimated drift -1, corrected to +1
C35_Witness ==
    /\ fn.op = "guard_beacon"
    /\ fn.c = 3 /\ fn.beacon_id = 51
    /\ fn.b = 1 /\ fn.estimated_drift = -1 /\ fn.res = 1

\* C36: tsch_get_lock never returns 1 to two callers without a
\* tsch_release_lock in between: at most one caller has received 1 and not yet
\* released (fres[f] = 1 from the return of line 227 to tsch_release_lock)
C36_OneHolder ==
    \A f \in Procs, g \in Procs : (fres[f] = 1 /\ fres[g] = 1) => f = g

\* C37: tsch_lock_requested is never left set by a finished call: in every
\* state in which no call of tsch_get_lock is in progress the flag is 0
C37_NoRequestLeftSet ==
    (\A f \in Procs : fpc[f] = "idle") => tsch_lock_requested = 0

\* the executor is suspended in its main loop, waiting for the wake-up of the
\* next slot, and no slot is in progress
SuspendedBetweenSlots == epc = "susp_main" /\ tsch_in_slot_operation = 0

\* C38: for both values of TSCH_RADIO_ON_DURING_TIMESLOT, whenever the executor
\* is suspended between slots the radio is off: every radio-on of the finished
\* slot has been followed by a radio-off, on all paths
C38_RadioOffBetweenSlots == SuspendedBetweenSlots => ~radio_on

\* this step begins a further pass of the rescheduling loop, the wake-up of the
\* pass before it having been missed
FurtherPass == epc = "sched_ret" /\ pass.site = "main" /\ epc' = "resched"

\* C39: a drift correction measured in a slot is applied exactly once: the pass
\* that ends the slot adds it to the wake-up offset and clears it, so that it is
\* zero in any further pass caused by a missed deadline; whenever the executor
\* is suspended between slots, drift_correction = 0 and
\* is_drift_correction_used = 0
C39_DriftAppliedOnce ==
    /\ [](SuspendedBetweenSlots =>
             (drift_correction = 0 /\ is_drift_correction_used = 0))
    /\ [][/\ ReschedulingPass =>
               /\ timesync_call.called => pass'.drift = timesync_call.drift_ticks
               /\ pass'.drift = drift_correction
               /\ pass'.offset =
                     Wrap(pass'.diff * TS_TIMESLOT_LENGTH + drift_correction)
               /\ drift_correction' = 0 /\ is_drift_correction_used' = 0
          /\ FurtherPass =>
               (drift_correction' = 0 /\ is_drift_correction_used' = 0)]_vars

\* the pass that ended a slot has applied a correction and its wake-up was
\* missed, so that a further pass follows
C39_Witness ==
    /\ epc = "sched_ret" /\ pass.site = "main"
    /\ pass.drift # 0 /\ pass.ret = 0
    /\ drift_correction = 0 /\ is_drift_correction_used = 0

\* the slot that ends was an RX slot in which a frame of the time source was
\* accepted, and its negated estimated drift was handed to tsch_timesync_update
RxDerivedCorrection ==
    /\ current_packet = NULL
    /\ current_link # NULL
    /\ HasOption(current_link, LINK_OPTION_RX)
    /\ timesync_call.called
    /\ timesync_call.drift_ticks = drift_correction

\* C40 as stated: the drift correction added to the next wake-up offset is within
\* [-SYNC_IE_BOUND, SYNC_IE_BOUND] in every slot, whether derived from an
\* enhanced ACK in a TX slot or from a frame of the time source in an RX slot
C40_AppliedDriftWithinBound ==
    [][ReschedulingPass => Abs(pass'.drift) <= SYNC_IE_BOUND]_vars

\* C40, amended: the drift correction added to the next wake-up offset is within
\* [-SYNC_IE_BOUND, SYNC_IE_BOUND] in every pass, except in the pass that ends an
\* RX slot in which a frame of the time source was accepted: there it is the
\* negated estimated drift handed to tsch_timesync_update, which is not truncated
C40_AckDriftWithinBound ==
    [][ReschedulingPass =>
          /\ pass'.drift = drift_correction
          /\ Abs(pass'.drift) <= SYNC_IE_BOUND \/ RxDerivedCorrection]_vars

\* the pass that ended an RX slot has applied a correction of twice
\* SYNC_IE_BOUND: the frame of the time source began two ticks early
C40_Witness ==
    /\ epc = "sched_ret" /\ pass.site = "main"
    /\ pass.drift = -2 * SYNC_IE_BOUND
    /\ current_packet = NULL
    /\ last_sync_asn + pass.diff = tsch_current_asn
    /\ tsch_current_asn > 2

====
